---------------------------- MODULE Spec2Model ----------------------------
(***************************************************************************)
(* Delta discovery push engine of internal/kgateway/agentgatewaysyncer/    *)
(* krtxds/xds.go: the per-connection request/ack state machine             *)
(* (shouldRespondDelta, processDeltaRequest), the diff generator           *)
(* (CollectionGenerator.GenerateDeltas), the response path (pushDeltaXds,  *)
(* sendDelta) and the push dispatcher (sendPushes, Push).                  *)
(*                                                                         *)
(* Spec  : one initialized session, its requests and the pushes it handles.*)
(* SpecGen: single calls of GenerateDeltas on every input of the universe.  *)
(* SpecQ : the dispatcher, the push queue and the concurrency semaphore    *)
(*         over several sessions.                                          *)
(***************************************************************************)
EXTENDS Integers, Sequences, FiniteSets, TLC

(***************************************************************************)
(* Bounds of the model.                                                    *)
(***************************************************************************)
\* number of responses a session may send (each takes a fresh uuid)
MaxUuid == 2
\* number of Push calls (each takes the next push version)
MaxVersion == 1
\* number of names a request may mention over its three name lists
MaxReqNames == 2
\* number of Push calls the dispatcher is given (SpecQ)
MaxPushCalls == 3
\* features.PushThrottle, the capacity of concurrentPushLimit
PushThrottle == 1

(***************************************************************************)
(* Universe of values.                                                     *)
(***************************************************************************)
\* v3.AddressType, the type whose names are not stored for wildcard watches
AddressType == "Address"
\* type URLs a client may name: "T" and the address type are registered, "U" is not
Types == {"T", AddressType, "U"}
\* resource names, and the synthetic wildcard name
Names == {"a", "b"}
Star == "*"
NamesStar == Names \cup {Star}
\* lexical order of the names, as sets.SortedList sorts them
NameRank == [n \in NamesStar |-> CASE n = Star -> 0 [] n = "a" -> 1 [] n = "b" -> 2]
\* gateways (types.NamespacedName); NoGateway is a nil ForGateway
Gateways == {"g1", "g2"}
NoGateway == "nil"
\* the connections of the dispatcher (their connection ids)
Conns == {"c1", "c2"}
\* ErrorDetail of a request: nil, or a status with a message
NoError == "<nil>"
ErrorMessages == {"e1"}
\* the empty nonce, and a nonce this server never sent
NoNonce == <<>>
ForeignNonce == <<0, 0>>
\* the empty push version of a PushRequest built for a client request
NoVersion == 0

\* DebounceOptions in ticks of the clock: the quiet period and the maximum delay
DebounceAfter == 2
DebounceMax == 3
\* a nil timeChan, or one whose time was already received
NoTimer == -1
\* the durations time.Since reports are followed up to MaxAge ticks
MaxAge == 5
\* the events the collections send on the push channel
MaxEvents == 4

VARIABLES
  WatchedResources,  \* Proxy.WatchedResources of the session
  status,            \* "active", "closed" (loop returned an error), "panic"
  uuid,              \* number of uuids drawn by nonce()
  pushVersion,       \* DiscoveryServer.pushVersion
  held,              \* names the proxy holds per type (added, not since removed)
  sent,              \* the nonces of the responses sent so far on the stream
  ev,                \* the operation handled by the last step
  prev,              \* WatchedResources before the last step
  out,               \* responses sent on the stream by the last step
  \* ---- dispatcher (SpecQ) ----
  adsClients,        \* DiscoveryServer.adsClients
  closedStreams,     \* sessions whose stream context is done
  returned,          \* sessions whose control loop has returned
  pending,           \* PushQueue.pending
  queue,             \* PushQueue.queue
  processing,        \* PushQueue.processing
  semaphore,         \* len(concurrentPushLimit)
  dispatcher,        \* position of sendPushes
  handoff,           \* goroutines of sendPushes blocked on PushCh / closed
  handling,          \* push events a session loop has received, Done not called
  doneCalls,         \* per dequeued push: number of Done calls
  delivered,         \* per connection: the batches its loop received so far
  \* ---- generator (SpecGen) ----
  gen,               \* one call of GenerateDeltas: its arguments and its result
  merged,            \* one call of PushRequest.Merge: its operands and its result
  decided,           \* one call of shouldRespondDelta: its arguments and its result
  \* ---- connection identifiers (SpecC) ----
  connectionNumber,  \* the counter connectionID draws from
  connections,       \* per stream: its Connection (id, node, proxy) and how far it is
  clientsByID,       \* the table adsClients with its keys: connection id -> stream
  \* ---- the server (SpecX, SpecQ2) ----
  stopCh,            \* the stop channel of Start is closed
  concurrentPushLimit, \* the capacity of the semaphore of sendPushes
  shuttingDown,      \* Shutdown was called: the push queue is shut down
  \* ---- debouncer (SpecD) ----
  debounce,          \* the locals of debounce(): timeChan, req, free, freeCh, ...
  pushFn,            \* the calls of pushFn so far: the batch, the delays, returned or not
  burst,             \* whether the events of the current burst arrived steadily
  \* ---- one stream (SpecS) ----
  receiver,          \* position of the goroutine receiveDelta
  firstRequest,      \* its local firstRequest
  recvReq,           \* the request it received and has not yet handed over
  deltaReqChan,      \* Connection.deltaReqChan: what is buffered, closed or not
  errorCh,           \* Connection.ErrorCh(): the error buffered, closed or not
  initialized,       \* Connection.InitializedCh(): open, or who closed it
  loop,              \* position of the control loop of StreamDeltas
  trace              \* history of the stream: received, skipped, handled, returned

sessVars == <<WatchedResources, status, uuid, pushVersion,
              held, sent, ev, prev, out>>
queueVars == <<adsClients, closedStreams, returned, pending, queue, processing, semaphore,
               dispatcher, handoff, handling, doneCalls, delivered>>
debVars == <<debounce, pushFn, burst>>
callVars == <<gen, merged, decided>>
connVars == <<connectionNumber, connections, clientsByID>>
serverVars == <<stopCh, concurrentPushLimit, shuttingDown>>
streamVars == <<receiver, firstRequest, recvReq, deltaReqChan, errorCh, initialized, loop, trace>>
vars == <<sessVars, queueVars, callVars, connVars, serverVars, debVars, streamVars>>


(***************************************************************************)
(* Resources and collections (DiscoveryResource, PerGatewayCollection).    *)
(***************************************************************************)
\* AgentgatewayID(con.node): the gateway the session's node declares
SessionGateway == "g1"

\* a DiscoveryResource: its Resource.Name and its ForGateway
DiscoveryResource(name, gw) == [Name |-> name, ForGateway |-> gw]

\* what a collection registered with an extract function may hold
PerGatewayResources == {DiscoveryResource(n, g) : n \in Names, g \in Gateways}

\* what a collection registered without an extract function may hold
GlobalResources == {DiscoveryResource(n, NoGateway) : n \in Names}

\* DiscoveryServer.Collections after the registrations: "T" by PerGatewayCollection,
\* the address type by Collection, nothing for "U"
Collections == [t \in Types |-> CASE t = "T" -> "pergw"
                                   [] t = AddressType -> "global"
                                   [] OTHER -> "none"]

\* the contents the krt collection of a registration kind may have
Contents(kind) == CASE kind = "pergw" -> SUBSET PerGatewayResources
                    [] kind = "global" -> SUBSET GlobalResources
                    [] OTHER -> {{}}

\* DiscoveryResource.ResourceName, the krt key: the segments joined by "/"
ResourceName(d) == IF d.ForGateway # NoGateway THEN <<d.ForGateway, d.Name>> ELSE <<d.Name>>

\* krt Collection.GetKey: the resources of c stored under key (none or one)
GetKey(c, key) == {d \in c : ResourceName(d) = key}

\* sets.SortedList
RECURSIVE SortedList(_)
SortedList(S) == IF S = {} THEN <<>>
                 ELSE LET m == CHOOSE x \in S : \A y \in S : NameRank[x] <= NameRank[y]
                      IN <<m>> \o SortedList(S \ {m})

\* the orders in which a Go map of names may be ranged over
IterationOrders == {SortedList(Names), <<"b", "a">>}

Range(s) == {s[i] : i \in 1..Len(s)}

(***************************************************************************)
(* CollectionGenerator.GenerateDeltas                                      *)
(***************************************************************************)
\* (mutant) the scope filter lets every resource through
VisibleToAll(d, gw) == TRUE

\* the scope filter of both modes: a resource of another gateway is dropped
VisibleTo(d, gw) == ~(d.ForGateway # NoGateway /\ d.ForGateway # gw)

\* full mode (req.IsRequest()): everything visible, and the tracked names not in it
GenerateFull(c, w, gw) ==
  LET res == {d \in c : VisibleTo(d, gw)}
      toDeleted == w.ResourceNames \ {d.Name : d \in res}
  IN [res |-> res, deletes |-> SortedList(toDeleted)]

\* the lookup of one changed name in incremental mode
LookupChanged(c, gw, k) == {d \in GetKey(c, <<gw, k>>) : VisibleTo(d, gw)}

\* (mutant) incremental mode reports no name as removed
GenerateIncrementalNoDeletes(c, changed, gw, iter) ==
  [res |-> UNION {LookupChanged(c, gw, k) : k \in changed}, deletes |-> <<>>]

\* incremental mode: each changed name of the type, looked up under gw/name
GenerateIncremental(c, changed, gw, iter) ==
  LET found(k) == LookupChanged(c, gw, k)
  IN [res |-> UNION {found(k) : k \in changed},
      deletes |-> SelectSeq(iter, LAMBDA k : k \in changed /\ found(k) = {})]

\* GenerateDeltas; empty is the (nil, nil) result
GenerateDeltas(c, req, t, w, gw, iter) ==
  LET g == IF req.IsFromRequest THEN GenerateFull(c, w, gw)
           ELSE GenerateIncremental(c, req.ConfigsUpdated[t], gw, iter)
  IN [res |-> g.res, deletes |-> g.deletes,
      empty |-> g.res = {} /\ g.deletes = <<>>]

(***************************************************************************)
(* Requests and the watched state.                                         *)
(***************************************************************************)
\* a model.WatchedResource as shouldRespondDelta creates it
NewWatchedResource(names, wildcard) ==
  [ResourceNames |-> names, Wildcard |-> wildcard, NonceSent |-> NoNonce,
   NonceAcked |-> NoNonce, LastError |-> "", AlwaysRespond |-> FALSE]

\* m with key t set to w (a Go map assignment)
MapSet(m, t, w) == [x \in DOMAIN m \cup {t} |-> IF x = t THEN w ELSE m[x]]

\* the name lists of a DeltaDiscoveryRequest: subscribe, unsubscribe, initial versions
NameLists == {l \in (SUBSET NamesStar) \X (SUBSET NamesStar) \X (SUBSET NamesStar) :
                Cardinality(l[1]) + Cardinality(l[2]) + Cardinality(l[3]) <= MaxReqNames}

DeltaDiscoveryRequest(t, l, n, e) ==
  [TypeUrl |-> t, ResourceNamesSubscribe |-> l[1], ResourceNamesUnsubscribe |-> l[2],
   InitialResourceVersions |-> l[3], ResponseNonce |-> n, ErrorDetail |-> e]

\* (mutant) deltaWatchedResources not counting an unsubscription as a change
deltaWatchedResourcesSubscribed(existing, request) ==
  LET subscribed == existing \cup request.ResourceNamesSubscribe
      initial == subscribed \cup request.InitialResourceVersions
      res == initial \ request.ResourceNamesUnsubscribe
      changed == \/ request.ResourceNamesSubscribe \ existing # {}
                 \/ request.InitialResourceVersions \ subscribed # {}
  IN [res |-> res \ {Star},
      wildcard |-> Star \in res \/ request.ResourceNamesSubscribe = {},
      changed |-> changed]

\* deltaWatchedResources: (names, wildcard, changed)
deltaWatchedResources(existing, request) ==
  LET subscribed == existing \cup request.ResourceNamesSubscribe
      initial == subscribed \cup request.InitialResourceVersions
      res == initial \ request.ResourceNamesUnsubscribe
      changed == \/ request.ResourceNamesSubscribe \ existing # {}
                 \/ request.InitialResourceVersions \ subscribed # {}
                 \/ request.ResourceNamesUnsubscribe \cap initial # {}
  IN [res |-> res \ {Star},
      wildcard |-> Star \in res \/ request.ResourceNamesSubscribe = {},
      changed |-> changed]

\* features.EnableUnsafeAssertions (off unless the operator turns it on)
EnableUnsafeAssertions == FALSE

\* the first request for a type: the WatchedResource it creates
FirstWatchedResource(request) ==
  LET d == deltaWatchedResources({}, request)
      skip == request.TypeUrl = AddressType /\ d.wildcard
  IN NewWatchedResource(IF skip THEN {} ELSE d.res, d.wildcard)

\* (mutant) an accepted request with a nonce clears the error, not recording the ack
AcceptedWatchedResourceAckLost(wr, request) ==
  LET d == deltaWatchedResources(wr.ResourceNames, request)
      ack == request.ResponseNonce # NoNonce
  IN [wr EXCEPT !.ResourceNames = d.res,
                !.LastError = IF ack THEN "" ELSE @,
                !.AlwaysRespond = FALSE]

\* (mutant) an accepted request sets the wildcard flag anew from its lists
AcceptedWatchedResourceWildcard(wr, request) ==
  LET d == deltaWatchedResources(wr.ResourceNames, request)
      ack == request.ResponseNonce # NoNonce
  IN [wr EXCEPT !.ResourceNames = d.res,
                !.Wildcard = d.wildcard,
                !.LastError = IF ack THEN "" ELSE @,
                !.NonceAcked = IF ack THEN request.ResponseNonce ELSE @,
                !.AlwaysRespond = FALSE]

\* the update of an accepted request on an existing WatchedResource
AcceptedWatchedResource(wr, request) ==
  LET d == deltaWatchedResources(wr.ResourceNames, request)
      ack == request.ResponseNonce # NoNonce
  IN [wr EXCEPT !.ResourceNames = d.res,
                !.LastError = IF ack THEN "" ELSE @,
                !.NonceAcked = IF ack THEN request.ResponseNonce ELSE @,
                !.AlwaysRespond = FALSE]

\* (mutant) the nonce of a request is not compared with the one sent
ExpiredNonceUnchecked(wr, request) == FALSE

\* whether a request on an existing WatchedResource is dropped as stale
ExpiredNonce(wr, request) ==
  request.ResponseNonce # NoNonce /\ request.ResponseNonce # wr.NonceSent

\* (mutant) the check for a mismatch looks at spontaneous requests only
mismatchSpontaneous(spontaneousReq, subChanged) == spontaneousReq /\ ~subChanged

\* the check of the subscribed resources: a spontaneous request changes names, an
\* ack changes none
mismatch(spontaneousReq, subChanged) ==
  (spontaneousReq /\ ~subChanged) \/ (~spontaneousReq /\ subChanged)

\* shouldRespondDelta with features.EnableUnsafeAssertions = assertions: the decision,
\* the watched state after it, whether it panics, and whether it logged a mismatch
shouldRespondDeltaWith(assertions, W, request) ==
  LET t == request.TypeUrl
      keep == [respond |-> FALSE, W |-> W, panic |-> FALSE, logged |-> FALSE]
  IN IF request.ErrorDetail # NoError
     THEN IF t \notin DOMAIN W
          THEN [keep EXCEPT !.panic = TRUE]
          ELSE [keep EXCEPT !.W = [W EXCEPT ![t].LastError = request.ErrorDetail]]
     ELSE IF t \notin DOMAIN W
     THEN [keep EXCEPT !.respond = TRUE, !.W = MapSet(W, t, FirstWatchedResource(request))]
     ELSE IF ExpiredNonce(W[t], request)
     THEN keep
     ELSE LET d == deltaWatchedResources(W[t].ResourceNames, request)
              spontaneousReq == request.ResponseNonce = NoNonce
              invalid == mismatch(spontaneousReq, d.changed)
          IN [respond |-> d.changed \/ W[t].AlwaysRespond,
              W |-> [W EXCEPT ![t] = AcceptedWatchedResource(W[t], request)],
              panic |-> invalid /\ assertions,
              logged |-> invalid]

\* shouldRespondDelta as the server runs it
shouldRespondDelta(W, request) ==
  shouldRespondDeltaWith(EnableUnsafeAssertions, W, request)

(***************************************************************************)
(* Sending: nonce, sendDelta, pushDeltaXds.                                *)
(***************************************************************************)
\* (mutant) nonce returns the prefix alone
nonceNoUuid(noncePrefix, id) == <<noncePrefix, 0>>

\* nonce(prefix): the push version followed by a fresh uuid
nonce(noncePrefix, id) == <<noncePrefix, id>>

\* the proxy applying a response it received
Apply(h, resp) == (h \cup {d.Name : d \in resp.Resources}) \ Range(resp.RemovedResources)

\* the state a handler threads through its calls; err is "none", "send" or "panic"
Session(W, u, h) == [W |-> W, uuid |-> u, held |-> h, out |-> <<>>, err |-> "none"]

\* Connection.sendDelta (the types of the model are no debug types): on success NonceSent is recorded
sendDelta(S, res, ok) ==
  IF ok
  THEN [S EXCEPT !.W = MapSet(S.W, res.TypeUrl,
                          [(IF res.TypeUrl \in DOMAIN S.W THEN S.W[res.TypeUrl]
                            ELSE NewWatchedResource({}, FALSE))
                           EXCEPT !.NonceSent = res.Nonce]),
                 !.held[res.TypeUrl] = Apply(@, res),
                 !.out = Append(@, res)]
  ELSE [S EXCEPT !.err = "send"]

\* (mutant) pushDeltaXds sends the response even when GenerateDeltas returned nothing
pushDeltaXdsAlways(S, t, req, c, ok, iter) ==
  IF t \notin DOMAIN S.W THEN S
  ELSE IF Collections[t] = "none" THEN S
  ELSE LET g == GenerateDeltas(c, req, t, S.W[t], SessionGateway, iter)
           resp == [TypeUrl |-> t, SystemVersionInfo |-> req.PushVersion,
                    Nonce |-> nonce(req.PushVersion, S.uuid + 1),
                    Resources |-> g.res, RemovedResources |-> g.deletes]
       IN sendDelta([S EXCEPT !.uuid = @ + 1], resp, ok)

\* pushDeltaXds for the watched type t, whose collection holds c
pushDeltaXds(S, t, req, c, ok, iter) ==
  IF t \notin DOMAIN S.W THEN S
  ELSE IF Collections[t] = "none" THEN S
  ELSE LET g == GenerateDeltas(c, req, t, S.W[t], SessionGateway, iter)
           resp == [TypeUrl |-> t, SystemVersionInfo |-> req.PushVersion,
                    Nonce |-> nonce(req.PushVersion, S.uuid + 1),
                    Resources |-> g.res, RemovedResources |-> g.deletes]
       IN IF g.empty THEN S
          ELSE sendDelta([S EXCEPT !.uuid = @ + 1], resp, ok)

\* the PushRequest processDeltaRequest builds for a client request
RequestPush == [IsFromRequest |-> TRUE, ConfigsUpdated |-> [t \in Types |-> {}],
                PushVersion |-> NoVersion]

\* a PushRequest as Push hands it to the queue; Flushes is its history: the Push
\* calls whose batches it holds
ConfigPush(cu, version) == [IsFromRequest |-> FALSE, ConfigsUpdated |-> cu,
                            PushVersion |-> version, Flushes |-> {version}]

\* processDeltaRequest
processDeltaRequest(S, req, c, ok, iter) ==
  LET sr == shouldRespondDelta(S.W, req)
      S1 == [S EXCEPT !.W = sr.W]
  IN IF sr.panic THEN [S1 EXCEPT !.err = "panic"]
     ELSE IF ~sr.respond THEN S1
     ELSE pushDeltaXds(S1, req.TypeUrl, RequestPush, c, ok, iter)

\* (mutant) pushConnectionDelta goes on to the next type after a failed send
RECURSIVE pushConnectionDeltaAll(_, _, _, _, _, _)
pushConnectionDeltaAll(S, torder, req, cols, failing, iter) ==
  IF torder = <<>> THEN S
  ELSE pushConnectionDeltaAll(pushDeltaXds(S, Head(torder), req, cols[Head(torder)],
                                           Head(torder) # failing, iter),
                              Tail(torder), req, cols, failing, iter)

\* pushConnectionDelta: the watched types in the order torder, until a send fails;
\* cols gives the contents of each type's collection
RECURSIVE pushConnectionDelta(_, _, _, _, _, _)
pushConnectionDelta(S, torder, req, cols, failing, iter) ==
  IF torder = <<>> \/ S.err # "none" THEN S
  ELSE pushConnectionDelta(pushDeltaXds(S, Head(torder), req, cols[Head(torder)],
                                        Head(torder) # failing, iter),
                           Tail(torder), req, cols, failing, iter)

\* DiscoveryServer.pushOrder (never assigned: no type has a declared priority)
pushOrder == <<>>

\* the orders in which the Go map of watched resources may be ranged over
MapOrders == {<<"T", AddressType, "U">>, <<"U", AddressType, "T">>}

\* watchedResourcesByOrder: declared types first, then the others in map order
watchedResourcesByOrder(W, maporder) ==
  SelectSeq(pushOrder, LAMBDA t : t \in DOMAIN W)
    \o SelectSeq(maporder, LAMBDA t : t \in DOMAIN W /\ t \notin Range(pushOrder))

(***************************************************************************)
(* Spec: one initialized session and the type its proxy watches.           *)
(***************************************************************************)
\* the control loop is at its select, with nothing handled since
Idle == [kind |-> "idle"]

\* the dispatcher's variables, at rest
QueueIdle ==
  /\ adsClients = {}
  /\ closedStreams = {}
  /\ returned = {}
  /\ pending = <<>>
  /\ queue = <<>>
  /\ processing = <<>>
  /\ semaphore = 0
  /\ dispatcher = "select"
  /\ handoff = {}
  /\ handling = {}
  /\ doneCalls = <<>>
  /\ delivered = [con \in Conns |-> [count |-> 0, last |-> 0, inOrder |-> TRUE]]

\* no call of the generator is observed
GenIdle == gen = <<>>

\* a nil *PushRequest
NilRequest == <<>>

\* no call of Merge is observed
MergeIdle == merged = <<>>

\* no call of shouldRespondDelta is followed
DecideIdle == decided = <<>>

\* no stream is followed by its connection id
ConnIdle == connectionNumber = 0 /\ connections = <<>> /\ clientsByID = <<>>

\* NewDiscoveryServer and Start: the stop channel is open, the semaphore has room for
\* features.PushThrottle pushes
ServerIdle == stopCh = FALSE /\ concurrentPushLimit = PushThrottle /\ shuttingDown = FALSE

\* debounce() before its loop: no timer, zero times, nothing merged, free
DebounceIdle ==
  /\ debounce = [timeChan |-> NoTimer, eventDelay |-> MaxAge, quietTime |-> MaxAge,
                 debouncedEvents |-> 0, req |-> NilRequest, free |-> TRUE, freeCh |-> 0,
                 updateSent |-> 0, stopped |-> FALSE]
  /\ pushFn = <<>>
  /\ burst = [received |-> 0, steady |-> FALSE]

\* a stream StreamDeltas has not been called for
StreamIdle ==
  /\ receiver = "none"
  /\ firstRequest = TRUE
  /\ recvReq = 0
  /\ deltaReqChan = [buf |-> <<>>, closed |-> FALSE]
  /\ errorCh = [err |-> NoError, closed |-> FALSE]
  /\ initialized = "open"
  /\ loop = "none"
  /\ trace = <<>>

\* a session past initConnection: no watched resource, nothing sent
SessionIdle ==
  /\ WatchedResources = <<>>
  /\ status = "active"
  /\ uuid = 0
  /\ pushVersion = 0
  /\ held = [t \in Types |-> {}]
  /\ sent = [nonces |-> {}, last |-> [t \in Types |-> NoNonce], unique |-> TRUE]
  /\ ev = Idle
  /\ prev = <<>>
  /\ out = <<>>

Init == SessionIdle /\ QueueIdle /\ GenIdle /\ DebounceIdle /\ DecideIdle /\ ConnIdle /\ ServerIdle /\ MergeIdle /\ StreamIdle

\* the nonces a client may echo: none, one never sent, or the last one sent for a type
NonceChoices == {NoNonce, ForeignNonce}
                  \cup {WatchedResources[t].NonceSent : t \in DOMAIN WatchedResources}

\* the collection contents a handler of the session may read: every resource of
\* its own gateway, and one resource of another gateway
SessionContents(kind) == {c \in Contents(kind) : DiscoveryResource("b", "g2") \notin c}

\* the proxy of the session asks for one type: the one it watches, if it watches one
Observed(t) == DOMAIN WatchedResources \subseteq {t}

\* the history of the stream after the responses o were sent on it: their nonces, the
\* last one per type, and whether each nonce was new when it was sent
RECURSIVE Sent(_, _)
Sent(h, o) ==
  IF o = <<>> THEN h
  ELSE Sent([nonces |-> h.nonces \cup {Head(o).Nonce},
             last |-> [h.last EXCEPT ![Head(o).TypeUrl] = Head(o).Nonce],
             unique |-> h.unique /\ Head(o).Nonce \notin h.nonces],
            Tail(o))

\* the session after a handler returned S
Record(S, event) ==
  /\ WatchedResources' = S.W
  /\ uuid' = S.uuid
  /\ held' = S.held
  /\ sent' = Sent(sent, S.out)
  /\ out' = S.out
  /\ status' = CASE S.err = "panic" -> "panic" [] S.err = "send" -> "closed" [] OTHER -> "active"
  /\ ev' = event
  /\ prev' = WatchedResources

\* the same, as long as the uuids drawn stay within MaxUuid
Handled(S, event) == S.uuid <= MaxUuid /\ Record(S, event)

\* the control loop of StreamDeltas takes a request from deltaReqChan
ProcessDeltaRequest ==
  /\ status = "active" /\ ev = Idle
  /\ \E t \in Types, n \in NonceChoices, e \in {NoError} \cup ErrorMessages :
     \E l \in IF e = NoError THEN NameLists ELSE {<<{}, {}, {}>>} :
       LET req == DeltaDiscoveryRequest(t, l, n, e)
           sr == shouldRespondDelta(WatchedResources, req)
           reads == sr.respond /\ ~sr.panic
       IN /\ Observed(t)
          /\ \E c \in IF reads THEN SessionContents(Collections[t]) ELSE {{}},
                ok \in IF reads THEN BOOLEAN ELSE {TRUE} :
               Handled(processDeltaRequest(Session(WatchedResources, uuid, held),
                                           req, c, ok, SortedList(Names)),
                       [kind |-> "request", req |-> req, c |-> c])
  /\ UNCHANGED <<pushVersion, queueVars, callVars, connVars, serverVars, streamVars, debVars>>

\* Push stamps the next version on a batch; the control loop takes it from PushCh
PushConnectionDelta ==
  /\ status = "active" /\ ev = Idle
  /\ pushVersion < MaxVersion
  /\ pushVersion' = pushVersion + 1
  /\ \E t \in Types, changed \in SUBSET Names, elsewhere \in {{}, {"a"}} :
     \E c \in SessionContents(IF t \in DOMAIN WatchedResources
                               THEN Collections[t] ELSE "none"),
        maporder \in MapOrders, iter \in IterationOrders,
        failing \in {"none"} \cup (DOMAIN WatchedResources) :
       LET cu == [u \in Types |-> IF u = t THEN changed ELSE elsewhere]
           cols == [u \in Types |-> IF u = t THEN c ELSE {}]
           req == ConfigPush(cu, pushVersion + 1)
       IN /\ Observed(t)
          /\ Handled(pushConnectionDelta(Session(WatchedResources, uuid, held),
                                         watchedResourcesByOrder(WatchedResources, maporder),
                                         req, cols, failing, iter),
                     [kind |-> "push", req |-> req, t |-> t, c |-> c, iter |-> iter])
  /\ UNCHANGED <<queueVars, callVars, connVars, serverVars, streamVars, debVars>>

\* the handler returned nil: the loop of StreamDeltas is back at its select
LoopAgain ==
  /\ status = "active" /\ ev # Idle
  /\ ev' = Idle
  /\ prev' = <<>>
  /\ out' = <<>>
  /\ UNCHANGED <<WatchedResources, status, uuid, pushVersion, held, sent, queueVars, callVars, connVars, serverVars, streamVars,
                 debVars>>

Next ==
  \/ ProcessDeltaRequest
  \/ PushConnectionDelta
  \/ LoopAgain

Spec == Init /\ [][Next]_vars

(***************************************************************************)
(* Properties of the session (Spec).  They are stated on the state right   *)
(* after a handler returned: ev is what it handled (with the contents c of *)
(* the collection it read), prev the watched state it started from, out    *)
(* what it sent.                                                           *)
(***************************************************************************)
\* the last step handled a client request for a type the session already watched
RequestOnWatched == ev.kind = "request" /\ ev.req.TypeUrl \in DOMAIN prev

\* the last step handled a client request for a type the session did not watch
FirstRequest == ev.kind = "request" /\ ev.req.TypeUrl \notin DOMAIN prev

\* ... with a non-empty nonce that is not the last one sent for the type
StaleNonce ==
  /\ RequestOnWatched
  /\ ev.req.ResponseNonce # NoNonce
  /\ ev.req.ResponseNonce # prev[ev.req.TypeUrl].NonceSent

\* C1 as stated: a request with a non-empty nonce other than NonceSent, on a watched
\* type, is answered by nothing and leaves every field of the WatchedResource as it was.
C1_AsStated ==
  StaleNonce => /\ out = <<>>
                /\ WatchedResources[ev.req.TypeUrl] = prev[ev.req.TypeUrl]

\* C1 (amended): a request with a non-empty nonce other than NonceSent, on a watched
\* type, is answered by nothing; without an error detail it leaves the WatchedResource
\* unchanged, with one it changes LastError alone (to the message); and a request with
\* a non-empty nonce that changes NonceAcked carries the nonce NonceSent, which
\* NonceAcked then equals.
C1_StaleNonceDropped ==
  /\ StaleNonce =>
       /\ out = <<>>
       /\ WatchedResources[ev.req.TypeUrl] =
            IF ev.req.ErrorDetail = NoError THEN prev[ev.req.TypeUrl]
            ELSE [prev[ev.req.TypeUrl] EXCEPT !.LastError = ev.req.ErrorDetail]
  /\ (/\ RequestOnWatched
      /\ ev.req.ResponseNonce # NoNonce
      /\ WatchedResources[ev.req.TypeUrl].NonceAcked # prev[ev.req.TypeUrl].NonceAcked)
       => /\ ev.req.ResponseNonce = prev[ev.req.TypeUrl].NonceSent
          /\ WatchedResources[ev.req.TypeUrl].NonceAcked = ev.req.ResponseNonce

\* a stale request without error detail was handled after a response had been sent
C1_Witness ==
  /\ StaleNonce
  /\ ev.req.ErrorDetail = NoError
  /\ prev[ev.req.TypeUrl].NonceSent # NoNonce

\* C2 as stated: after a request for a type the session did not watch (the stream
\* still up), the type is watched and one response of that type has been sent.
C2_AsStated ==
  (FirstRequest /\ status = "active")
    => /\ ev.req.TypeUrl \in DOMAIN WatchedResources
       /\ Len(out) = 1
       /\ out[1].TypeUrl = ev.req.TypeUrl

\* C5 as stated, on the state after a successful send: for the type of every response
\* just sent, the tracked names are the names the proxy now holds.
C5_AsStated ==
  (ev # Idle /\ status = "active")
    => \A i \in 1..Len(out) :
         WatchedResources[out[i].TypeUrl].ResourceNames = held[out[i].TypeUrl]

\* C6 as stated: a request with an error detail is answered by nothing, its message
\* is the LastError of the WatchedResource of its type, and nothing else of that
\* WatchedResource changed.
C6_AsStated ==
  (ev.kind = "request" /\ ev.req.ErrorDetail # NoError)
    => /\ out = <<>>
       /\ ev.req.TypeUrl \in DOMAIN WatchedResources
       /\ WatchedResources[ev.req.TypeUrl].LastError = ev.req.ErrorDetail
       /\ ev.req.TypeUrl \in DOMAIN prev
            => WatchedResources[ev.req.TypeUrl] =
                 [prev[ev.req.TypeUrl] EXCEPT !.LastError = ev.req.ErrorDetail]

\* the lists of a request insert no name into names and remove none from it
NoNameChange(req, names) ==
  /\ req.ResourceNamesSubscribe \subseteq names
  /\ req.InitialResourceVersions \subseteq names
  /\ req.ResourceNamesUnsubscribe \cap names = {}

\* the last step handled a bare ack: the nonce last sent, no error, no name changed
BareAck ==
  /\ RequestOnWatched
  /\ ev.req.ErrorDetail = NoError
  /\ ev.req.ResponseNonce # NoNonce
  /\ ev.req.ResponseNonce = prev[ev.req.TypeUrl].NonceSent
  /\ NoNameChange(ev.req, prev[ev.req.TypeUrl].ResourceNames)

\* C7: a bare ack sets NonceAcked to its nonce and clears LastError; a response is
\* sent exactly when AlwaysRespond was set before it; AlwaysRespond is clear after
\* it, and the tracked names and wildcard flag are as before.
C7_BareAck ==
  BareAck =>
    /\ WatchedResources[ev.req.TypeUrl].NonceAcked = ev.req.ResponseNonce
    /\ WatchedResources[ev.req.TypeUrl].LastError = ""
    /\ (out # <<>>) <=> prev[ev.req.TypeUrl].AlwaysRespond
    /\ ~WatchedResources[ev.req.TypeUrl].AlwaysRespond
    /\ WatchedResources[ev.req.TypeUrl].ResourceNames = prev[ev.req.TypeUrl].ResourceNames
    /\ WatchedResources[ev.req.TypeUrl].Wildcard = prev[ev.req.TypeUrl].Wildcard

\* a bare ack was handled on a type whose last response had been rejected
C7_Witness ==
  /\ BareAck
  /\ prev[ev.req.TypeUrl].LastError # ""
  /\ prev[ev.req.TypeUrl].NonceAcked # ev.req.ResponseNonce

\* C8 as stated: the first request for a type (no error detail) sets the wildcard
\* flag exactly when its subscribe list is empty, or holds "*" while its unsubscribe
\* list does not; "*" is not among the tracked names.
C8_AsStated ==
  (FirstRequest /\ ev.req.ErrorDetail = NoError)
    => /\ WatchedResources[ev.req.TypeUrl].Wildcard
            = (\/ ev.req.ResourceNamesSubscribe = {}
               \/ (Star \in ev.req.ResourceNamesSubscribe
                   /\ Star \notin ev.req.ResourceNamesUnsubscribe))
       /\ Star \notin WatchedResources[ev.req.TypeUrl].ResourceNames

(***************************************************************************)
(* SpecGen: GenerateDeltas on every input of the universe.                 *)
(***************************************************************************)
\* the registered types: those with a CollectionGenerator
RegisteredTypes == {t \in Types : Collections[t] # "none"}

\* the calls of GenerateDeltas: a registered type, the contents of its collection,
\* the tracked names, the changed names, the gateway, the mode, the map order
GenCalls ==
  UNION {{[t |-> t, c |-> c, names |-> n, changed |-> ch, gw |-> g, full |-> f,
           iter |-> it, result |-> <<>>] :
            c \in Contents(Collections[t]), n \in SUBSET Names, ch \in SUBSET Names,
            g \in Gateways, f \in BOOLEAN, it \in IterationOrders} :
         t \in RegisteredTypes}

InitGen == SessionIdle /\ QueueIdle /\ gen \in GenCalls /\ DebounceIdle /\ DecideIdle /\ ConnIdle /\ ServerIdle /\ MergeIdle /\ StreamIdle

\* the call returns
Generate ==
  /\ gen # <<>>
  /\ gen.result = <<>>
  /\ LET req == IF gen.full THEN RequestPush
                ELSE ConfigPush([u \in Types |-> IF u = gen.t THEN gen.changed ELSE {}], 1)
         w == NewWatchedResource(gen.names, FALSE)
     IN gen' = [gen EXCEPT !.result = GenerateDeltas(gen.c, req, gen.t, w, gen.gw, gen.iter)]
  /\ UNCHANGED <<sessVars, queueVars, merged, decided, connVars, serverVars, debVars, streamVars>>

NextGen == Generate

SpecGen == InitGen /\ [][NextGen]_vars

\* a call in full mode, respectively incremental mode, has returned
FullCall == gen # <<>> /\ gen.result # <<>> /\ gen.full
IncrementalCall == gen # <<>> /\ gen.result # <<>> /\ ~gen.full

\* the resources of the call's collection whose scope is absent or the call's gateway
InScope == {d \in gen.c : d.ForGateway = NoGateway \/ d.ForGateway = gen.gw}

\* a sequence of names in strictly increasing lexical order
StrictlySorted(s) == \A i, j \in 1..Len(s) : i < j => NameRank[s[i]] < NameRank[s[j]]

C4_AsStated ==
  IncrementalCall =>
    LET present == {k \in gen.changed : \E d \in InScope : d.Name = k}
    IN /\ {d.Name : d \in gen.result.res} = present
       /\ gen.result.res \subseteq InScope
       /\ Range(gen.result.deletes) = gen.changed \ present
       /\ Len(gen.result.deletes) = Cardinality(gen.changed \ present)

\* the changed names of the call are all names the session does not track, borne only
\* by resources of other gateways
ChangedOutOfScope ==
  /\ IncrementalCall
  /\ gen.changed # {}
  /\ \A k \in gen.changed :
       /\ k \notin gen.names
       /\ \E d \in gen.c : d.Name = k
       /\ \A d \in gen.c : d.Name = k => d \notin InScope

\* C16 as stated: an incremental call whose changed names concern only resources not
\* visible to the session returns the no-op result.
C16_AsStated == ChangedOutOfScope => gen.result.empty

(***************************************************************************)
(* SpecQ: Push, the push queue, sendPushes and the sessions' push branch.  *)
(***************************************************************************)
\* m without key k (a Go map delete)
MapDelete(m, k) == [x \in DOMAIN m \ {k} |-> m[x]]

\* (mutant) Merge keeps only the names of other
MergeReplace(pr, other) ==
  IF pr = NilRequest THEN other
  ELSE IF other = NilRequest THEN pr
  ELSE other

\* PushRequest.Merge: nil yields the other; else the names of other join pr's, type by type
Merge(pr, other) ==
  IF pr = NilRequest THEN other
  ELSE IF other = NilRequest THEN pr
  ELSE [pr EXCEPT !.ConfigsUpdated =
          [t \in Types |-> pr.ConfigsUpdated[t] \cup other.ConfigsUpdated[t]],
                  !.Flushes = @ \cup other.Flushes]

\* the push queue: pending requests, the order of dispatch, the pushes being processed
PushQueue == [pending |-> pending, queue |-> queue, processing |-> processing]

\* (mutant) Enqueue makes a connection eligible again while its push is in progress
EnqueueAgain(Q, con, req) ==
  IF con \in DOMAIN Q.pending
  THEN [Q EXCEPT !.pending[con] = Merge(@, req)]
  ELSE [Q EXCEPT !.pending = MapSet(@, con, req), !.queue = Append(@, con)]

\* PushQueue.Enqueue: merge into the push in progress, else into the pending one,
\* else make the connection eligible
Enqueue(Q, con, req) ==
  IF con \in DOMAIN Q.processing
  THEN [Q EXCEPT !.processing[con] = Merge(@, req)]
  ELSE IF con \in DOMAIN Q.pending
  THEN [Q EXCEPT !.pending[con] = Merge(@, req)]
  ELSE [Q EXCEPT !.pending = MapSet(@, con, req), !.queue = Append(@, con)]

\* PushQueue.Dequeue on a non-empty queue: the head is in progress, nothing merged yet
Dequeue(Q) ==
  [Q EXCEPT !.queue = Tail(@),
            !.pending = MapDelete(@, Head(Q.queue)),
            !.processing = MapSet(@, Head(Q.queue), NilRequest)]

\* PushQueue.MarkDone: what was merged meanwhile becomes pending and eligible
MarkDone(Q, con) ==
  IF con \notin DOMAIN Q.processing THEN Q
  ELSE IF Q.processing[con] = NilRequest
  THEN [Q EXCEPT !.processing = MapDelete(@, con)]
  ELSE [Q EXCEPT !.processing = MapDelete(@, con),
                 !.pending = MapSet(@, con, Q.processing[con]),
                 !.queue = Append(@, con)]

\* the queue variables take the value Q
SetQueue(Q) ==
  /\ pending' = Q.pending
  /\ queue' = Q.queue
  /\ processing' = Q.processing

\* the orders in which the values of a Go map may be listed
Orders(S) == {o \in [1..Cardinality(S) -> S] : \A i, j \in DOMAIN o : o[i] = o[j] => i = j}

\* Push enqueues req for the connections of cs, one after the other
RECURSIVE EnqueueAll(_, _, _)
EnqueueAll(Q, cs, req) ==
  IF cs = <<>> THEN Q
  ELSE EnqueueAll(Enqueue(Q, Head(cs), req), Tail(cs), req)

InitQ == SessionIdle /\ QueueIdle /\ GenIdle /\ DebounceIdle /\ DecideIdle /\ ConnIdle /\ ServerIdle /\ MergeIdle /\ StreamIdle

\* initConnection: addCon registers the connection, then it is marked initialized
InitConnection(con) ==
  /\ con \notin adsClients \cup closedStreams \cup returned
  /\ adsClients' = adsClients \cup {con}
  /\ UNCHANGED <<sessVars, callVars, connVars, serverVars, streamVars, debVars, closedStreams, returned, pending, queue, processing,
                 semaphore, dispatcher, handoff, handling, doneCalls, delivered>>

\* the stream's context is done (the peer went away, or the handler returned)
CloseStream(con) ==
  /\ con \in adsClients
  /\ con \notin closedStreams
  /\ closedStreams' = closedStreams \cup {con}
  /\ UNCHANGED <<sessVars, callVars, connVars, serverVars, streamVars, debVars, adsClients, returned, pending, queue, processing,
                 semaphore, dispatcher, handoff, handling, doneCalls, delivered>>

\* receiveDelta ends on the closed stream: closeConnection removes the connection
CloseConnection(con) ==
  /\ con \in closedStreams
  /\ con \in adsClients
  /\ adsClients' = adsClients \ {con}
  /\ UNCHANGED <<sessVars, callVars, connVars, serverVars, streamVars, debVars, closedStreams, returned, pending, queue, processing,
                 semaphore, dispatcher, handoff, handling, doneCalls, delivered>>

\* the control loop, at its select, finds the request channel closed and returns
LoopReturn(con) ==
  /\ con \in closedStreams
  /\ con \notin returned
  /\ \A e \in handling : e.con # con
  /\ returned' = returned \cup {con}
  /\ UNCHANGED <<sessVars, callVars, connVars, serverVars, streamVars, debVars, adsClients, closedStreams, pending, queue, processing,
                 semaphore, dispatcher, handoff, handling, doneCalls, delivered>>

\* the batch the debouncer hands to the Push call numbered version: one name of "T",
\* a for the odd calls and b for the even ones
BatchOf(version) ==
  [t \in Types |-> IF t = "T" THEN {IF version % 2 = 1 THEN "a" ELSE "b"} ELSE {}]

\* Push: the next version is stamped on the batch, enqueued for AllClients
Push ==
  /\ pushVersion < MaxPushCalls
  /\ pushVersion' = pushVersion + 1
  /\ \E cs \in Orders(adsClients) :
       LET req == ConfigPush(BatchOf(pushVersion + 1), pushVersion + 1)
       IN SetQueue(EnqueueAll(PushQueue, cs, req))
  /\ UNCHANGED <<WatchedResources, status, uuid, held, sent, ev, prev, out, callVars, connVars, serverVars, streamVars, debVars, adsClients,
                 closedStreams, returned, semaphore, dispatcher, handoff, handling, doneCalls, delivered>>

\* (mutant) sendPushes goes on to dequeue without waiting for a free slot
AcquireSlotUnbounded ==
  /\ dispatcher = "select"
  /\ semaphore' = semaphore + 1
  /\ dispatcher' = "dequeue"
  /\ UNCHANGED <<sessVars, callVars, connVars, serverVars, streamVars, debVars, adsClients, closedStreams, returned, pending, queue,
                 processing, handoff, handling, doneCalls, delivered>>

\* sendPushes takes a slot of the semaphore (blocking while it is full)
AcquireSlot ==
  /\ dispatcher = "select"
  /\ ~stopCh
  /\ semaphore < concurrentPushLimit
  /\ semaphore' = semaphore + 1
  /\ dispatcher' = "dequeue"
  /\ UNCHANGED <<sessVars, callVars, connVars, serverVars, streamVars, debVars, adsClients, closedStreams, returned, pending, queue,
                 processing, handoff, handling, doneCalls, delivered>>

\* sendPushes dequeues the next connection and starts the goroutine handing its push over
DequeuePush ==
  /\ dispatcher = "dequeue"
  /\ queue # <<>>
  /\ LET client == Head(queue)
         pushEv == [id |-> Len(doneCalls) + 1, con |-> client, PushRequest |-> pending[client]]
     IN /\ SetQueue(Dequeue(PushQueue))
        /\ handoff' = handoff \cup {pushEv}
        /\ doneCalls' = Append(doneCalls, 0)
  /\ dispatcher' = "select"
  /\ UNCHANGED <<sessVars, callVars, connVars, serverVars, streamVars, debVars, adsClients, closedStreams, returned, semaphore, handling,
                 delivered>>

\* the history of a connection's loop after it received a batch: the number of
\* batches, the latest Push call among them, and whether every batch so far held
\* only Push calls later than all those received before it
Receive(d, req) ==
  [count |-> d.count + 1,
   last |-> CHOOSE f \in req.Flushes \cup {d.last} : \A g \in req.Flushes \cup {d.last} : g <= f,
   inOrder |-> d.inOrder /\ \A f \in req.Flushes : f > d.last]

\* (mutant) doneFunc without the receive from the semaphore
doneFuncHeld(pushEv) ==
  /\ semaphore > 0
  /\ SetQueue(MarkDone(PushQueue, pushEv.con))
  /\ semaphore' = semaphore
  /\ doneCalls' = [doneCalls EXCEPT ![pushEv.id] = @ + 1]

\* doneFunc of a dequeued push: MarkDone on the queue, then a slot is given back
doneFunc(pushEv) ==
  /\ semaphore > 0
  /\ SetQueue(MarkDone(PushQueue, pushEv.con))
  /\ semaphore' = semaphore - 1
  /\ doneCalls' = [doneCalls EXCEPT ![pushEv.id] = @ + 1]

\* (mutant) the goroutine also calls doneFunc once the session took the push
HandOverDone(pushEv) ==
  /\ handoff' = handoff \ {pushEv}
  /\ handling' = handling \cup {pushEv}
  /\ delivered' = [delivered EXCEPT ![pushEv.con] = Receive(@, pushEv.PushRequest)]
  /\ doneFunc(pushEv)

\* the goroutine's send on PushCh succeeds: the push is with the session, Done still due
HandOver(pushEv) ==
  /\ handoff' = handoff \ {pushEv}
  /\ handling' = handling \cup {pushEv}
  /\ delivered' = [delivered EXCEPT ![pushEv.con] = Receive(@, pushEv.PushRequest)]
  /\ UNCHANGED <<pending, queue, processing, semaphore, doneCalls>>

\* the control loop of the push's session, at its second select, receives from PushCh
ReceivePush(pushEv) ==
  /\ pushEv \in handoff
  /\ pushEv.con \notin returned
  /\ \A e \in handling : e.con # pushEv.con
  /\ HandOver(pushEv)
  /\ UNCHANGED <<sessVars, callVars, connVars, serverVars, streamVars, debVars, adsClients, closedStreams, returned, dispatcher>>

\* the goroutine finds the stream closed instead: it calls doneFunc itself
ClosedHandOver(pushEv) ==
  /\ pushEv \in handoff
  /\ pushEv.con \in closedStreams
  /\ handoff' = handoff \ {pushEv}
  /\ doneFunc(pushEv)
  /\ UNCHANGED <<sessVars, callVars, connVars, serverVars, streamVars, debVars, adsClients, closedStreams, returned, dispatcher, handling,
                 delivered>>

\* pushConnectionDelta returned for the push: Done is called, and on an error the
\* loop returns, which ends the stream
FinishPush(pushEv, ok) ==
  /\ pushEv \in handling
  /\ handling' = handling \ {pushEv}
  /\ doneFunc(pushEv)
  /\ returned' = IF ok THEN returned ELSE returned \cup {pushEv.con}
  /\ closedStreams' = IF ok THEN closedStreams ELSE closedStreams \cup {pushEv.con}
  /\ UNCHANGED <<sessVars, callVars, connVars, serverVars, streamVars, debVars, adsClients, dispatcher, handoff, delivered>>

NextQ ==
  \/ \E con \in Conns : InitConnection(con)
  \/ \E con \in Conns : CloseStream(con)
  \/ \E con \in Conns : CloseConnection(con)
  \/ \E con \in Conns : LoopReturn(con)
  \/ Push
  \/ AcquireSlot
  \/ DequeuePush
  \/ \E pushEv \in handoff : ReceivePush(pushEv)
  \/ \E pushEv \in handoff : ClosedHandOver(pushEv)
  \/ \E pushEv \in handling, ok \in BOOLEAN : FinishPush(pushEv, ok)

SpecQ == InitQ /\ [][NextQ]_vars

\* the pushes of a connection that were dequeued and whose Done was not called
InFlight(con) == {i \in 1..Len(doneCalls) :
                    /\ doneCalls[i] = 0
                    /\ \E e \in handoff \cup handling : e.id = i /\ e.con = con}

\* C9: a connection has at most one push in flight; while it has one it is in
\* progress in the queue and not eligible for dispatch, whatever was enqueued for it
\* meanwhile; and it is never eligible twice.
C9_SingleInFlight ==
  \A con \in Conns :
    /\ Cardinality(InFlight(con)) <= 1
    /\ InFlight(con) # {} => con \in DOMAIN processing
    /\ con \in DOMAIN processing => con \notin Range(queue)
    /\ Cardinality({i \in 1..Len(queue) : queue[i] = con}) <= 1
    /\ con \in Range(queue) <=> con \in DOMAIN pending

\* a connection has a push in flight and two later batches merged behind it
C9_Witness ==
  \E con \in Conns :
    /\ InFlight(con) # {}
    /\ con \in DOMAIN processing
    /\ processing[con] # NilRequest
    /\ processing[con].ConfigsUpdated["T"] = Names

\* C10: the pushes dequeued and not yet done, over all connections, are at most
\* PushThrottle.
C10_Throttle ==
  Cardinality(UNION {InFlight(con) : con \in Conns}) <= PushThrottle

\* the semaphore is full with a push in flight while another connection is eligible
C10_Witness ==
  /\ Cardinality(UNION {InFlight(con) : con \in Conns}) = PushThrottle
  /\ queue # <<>>
  /\ dispatcher = "select"

\* C11: every batch a connection's loop received held only Push calls later than all
\* the Push calls of the batches it had received before: batches reach a session in
\* the order of their flushes, merged or not, and none twice.
C11_InOrder == \A con \in Conns : delivered[con].inOrder

\* a connection received a batch and, after it, a batch of two merged Push calls
C11_Witness ==
  \E pushEv \in handling :
    /\ delivered[pushEv.con].count = 2
    /\ Cardinality(pushEv.PushRequest.Flushes) = 2

(***************************************************************************)
(* SpecD: debounce (xds.go:948-1017).  The clock advances in ticks; the    *)
(* loop handles a timer that is due, and a finished push, before the clock *)
(* advances again.  The two times debounce keeps are followed as the       *)
(* durations time.Since reports for them.                                  *)
(***************************************************************************)
\* half the quiet period
HalfQuiet == DebounceAfter \div 2

\* the (type, name) pair of the id-th event the collections report
EventPair(id) ==
  IF id % 3 = 1 THEN <<"T", "a">> ELSE IF id % 3 = 2 THEN <<"T", "b">> ELSE <<AddressType, "a">>

\* the PushRequest a collection sends for its id-th batch of events, one name n of
\* type t; Flushes is its history: the number of the event
ChangeEvent(t, n, id) ==
  [IsFromRequest |-> FALSE,
   ConfigsUpdated |-> [u \in Types |-> IF u = t THEN {n} ELSE {}],
   PushVersion |-> NoVersion, Flushes |-> {id}]

\* time.Since after one more tick
Older(age) == IF age < MaxAge THEN age + 1 ELSE MaxAge

\* (mutant) pushWorker pushes whenever there is a request
pushWorkerAtOnce(d) ==
  IF d.req # NilRequest
  THEN [debounce |-> [d EXCEPT !.free = FALSE, !.req = NilRequest, !.debouncedEvents = 0],
        pushed |-> <<[req |-> d.req, debouncedEvents |-> d.debouncedEvents,
                      eventDelay |-> d.eventDelay, quietTime |-> d.quietTime,
                      returned |-> FALSE]>>]
  ELSE [debounce |-> d, pushed |-> <<>>]

\* pushWorker: push if it has been too long or quiet enough, else wait for the rest of
\* the quiet period; pushed holds the call of pushFn the push goroutine makes
pushWorker(d) ==
  IF d.eventDelay >= DebounceMax \/ d.quietTime >= DebounceAfter
  THEN IF d.req # NilRequest
       THEN [debounce |-> [d EXCEPT !.free = FALSE, !.req = NilRequest,
                                    !.debouncedEvents = 0],
             pushed |-> <<[req |-> d.req, debouncedEvents |-> d.debouncedEvents,
                           eventDelay |-> d.eventDelay, quietTime |-> d.quietTime,
                           returned |-> FALSE]>>]
       ELSE [debounce |-> d, pushed |-> <<>>]
  ELSE [debounce |-> [d EXCEPT !.timeChan = DebounceAfter - d.quietTime],
        pushed |-> <<>>]

InitD == SessionIdle /\ QueueIdle /\ GenIdle /\ DebounceIdle /\ DecideIdle /\ ConnIdle /\ ServerIdle /\ MergeIdle /\ StreamIdle

\* case r := <-ch: the event is merged; the first one of a batch starts the timer
ChannelEvent ==
  /\ ~debounce.stopped
  /\ burst.received < MaxEvents
  /\ LET first == debounce.debouncedEvents = 0
         id == burst.received + 1
         r == ChangeEvent(EventPair(id)[1], EventPair(id)[2], id)
     IN /\ debounce' = [debounce EXCEPT
                          !.quietTime = 0,
                          !.timeChan = IF first THEN DebounceAfter ELSE @,
                          !.eventDelay = IF first THEN 0 ELSE @,
                          !.debouncedEvents = @ + 1,
                          !.req = Merge(@, r)]
        /\ burst' = [received |-> id,
                     steady |-> /\ debounce.free
                                /\ \/ first
                                   \/ burst.steady /\ debounce.quietTime = HalfQuiet]
  /\ UNCHANGED <<sessVars, queueVars, callVars, connVars, serverVars, streamVars, pushFn>>

\* (mutant) case <-timeChan without the test of free
TimeChanAlways ==
  /\ ~debounce.stopped
  /\ debounce.timeChan = 0
  /\ LET w == pushWorker([debounce EXCEPT !.timeChan = NoTimer])
     IN /\ debounce' = w.debounce
        /\ pushFn' = pushFn \o w.pushed
        /\ burst' = [burst EXCEPT !.steady = @ /\ w.pushed = <<>>]
  /\ UNCHANGED <<sessVars, queueVars, callVars, connVars, serverVars, streamVars>>

\* case <-timeChan: the timer's time is received; pushWorker runs if free
TimeChan ==
  /\ ~debounce.stopped
  /\ debounce.timeChan = 0
  /\ LET d == [debounce EXCEPT !.timeChan = NoTimer]
         w == IF d.free THEN pushWorker(d) ELSE [debounce |-> d, pushed |-> <<>>]
     IN /\ debounce' = w.debounce
        /\ pushFn' = pushFn \o w.pushed
        /\ burst' = [burst EXCEPT !.steady = @ /\ w.pushed = <<>>]
  /\ UNCHANGED <<sessVars, queueVars, callVars, connVars, serverVars, streamVars>>

\* case <-freeCh: the push has finished; pushWorker runs
FreeCh ==
  /\ ~debounce.stopped
  /\ debounce.freeCh = 1
  /\ LET w == pushWorker([debounce EXCEPT !.freeCh = 0, !.free = TRUE])
     IN /\ debounce' = w.debounce
        /\ pushFn' = pushFn \o w.pushed
        /\ burst' = [burst EXCEPT !.steady = FALSE]
  /\ UNCHANGED <<sessVars, queueVars, callVars, connVars, serverVars, streamVars>>

\* the push goroutine: pushFn returns, updateSent is increased, freeCh is signalled
PushReturn(i) ==
  /\ ~pushFn[i].returned
  /\ debounce.freeCh = 0
  /\ pushFn' = [pushFn EXCEPT ![i].returned = TRUE]
  /\ debounce' = [debounce EXCEPT !.freeCh = 1,
                                  !.updateSent = @ + pushFn[i].debouncedEvents]
  /\ UNCHANGED <<sessVars, queueVars, callVars, connVars, serverVars, streamVars, burst>>

\* case <-stopCh: debounce returns
StopCh ==
  /\ ~debounce.stopped
  /\ debounce' = [debounce EXCEPT !.stopped = TRUE]
  /\ UNCHANGED <<sessVars, queueVars, callVars, connVars, serverVars, streamVars, pushFn, burst>>

\* the clock advances by one tick while debounce runs, unless the loop has a timer or
\* a finished push to handle first
Tick ==
  /\ ~debounce.stopped
  /\ debounce.timeChan # 0
  /\ debounce.freeCh = 0
  /\ debounce' = [debounce EXCEPT
                    !.eventDelay = Older(@),
                    !.quietTime = Older(@),
                    !.timeChan = IF @ = NoTimer \/ @ = 0 THEN @ ELSE @ - 1]
  /\ burst' = [burst EXCEPT !.steady = @ /\ debounce.quietTime < HalfQuiet]
  /\ UNCHANGED <<sessVars, queueVars, callVars, connVars, serverVars, streamVars, pushFn>>

NextD ==
  \/ ChannelEvent
  \/ TimeChan
  \/ FreeCh
  \/ \E i \in DOMAIN pushFn : PushReturn(i)
  \/ StopCh
  \/ Tick

SpecD == InitD /\ [][NextD]_vars

\* SpecD with the scheduling the code relies on: the clock advances, the loop handles
\* what is ready, and every call of pushFn returns
SpecDLive ==
  /\ SpecD
  /\ WF_vars(Tick)
  /\ WF_vars(TimeChan)
  /\ WF_vars(FreeCh)
  /\ WF_vars(\E i \in DOMAIN pushFn : PushReturn(i))

(***************************************************************************)
(* Properties of the debouncer (SpecD, SpecDLive).                         *)
(***************************************************************************)
\* the calls of pushFn that have not returned
InFlightD == {i \in DOMAIN pushFn : ~pushFn[i].returned}

\* the events of the first i batches passed to pushFn
FlushedUpTo(i) == UNION {pushFn[j].req.Flushes : j \in 1..i}

\* the events received and not yet passed to pushFn
Unflushed == (1..burst.received) \ FlushedUpTo(Len(pushFn))

\* the names of the events ids, type by type
PairsOf(ids) ==
  [t \in Types |-> {EventPair(id)[2] : id \in {x \in ids : EventPair(x)[1] = t}}]

\* C12: while the events of a burst keep arriving every DebounceAfter/2 and no push is
\* in flight, the batch is pushed no later than DebounceMax after the burst's first event:
\* the burst is never older than DebounceMax
C12_AsStated == burst.steady => debounce.eventDelay <= DebounceMax

\* C13: every batch passed to pushFn was pushed at least DebounceAfter after the last
\* event merged into it, or at least DebounceMax after its first event
C13_QuietOrMax ==
  \A i \in DOMAIN pushFn :
    pushFn[i].quietTime >= DebounceAfter \/ pushFn[i].eventDelay >= DebounceMax

\* one batch was pushed after a quiet period, another because of the maximum delay
C13_Witness ==
  \E i, j \in DOMAIN pushFn :
    /\ pushFn[i].quietTime >= DebounceAfter /\ pushFn[i].eventDelay < DebounceMax
    /\ pushFn[j].quietTime < DebounceAfter /\ pushFn[j].eventDelay >= DebounceMax

\* C14: at most one call of pushFn is in flight; an event received while one is in
\* flight is merged into the request kept for the next push and starts no push; a
\* push starts only when no call is in flight
C14_OneInFlight ==
  /\ [](Cardinality(InFlightD) <= 1)
  /\ [][/\ (InFlightD # {} /\ burst.received' > burst.received) =>
             /\ pushFn' = pushFn
             /\ debounce'.req # NilRequest
             /\ burst.received' \in debounce'.req.Flushes
             /\ debounce.req # NilRequest => debounce.req.Flushes \subseteq debounce'.req.Flushes
        /\ Len(pushFn') > Len(pushFn) => InFlightD = {}]_vars

\* two events were received and merged while a call of pushFn was in flight, and the
\* push of an earlier batch had already finished
C14_Witness ==
  /\ Len(pushFn) = 2
  /\ InFlightD = {2}
  /\ debounce.req # NilRequest
  /\ Cardinality(debounce.req.Flushes) = 2

\* the batches passed to pushFn hold consecutive runs of the received events, each
\* with the names of exactly its events, and the request kept holds the others
C15_Batches ==
  /\ \A i \in DOMAIN pushFn :
       /\ pushFn[i].req.Flushes # {}
       /\ pushFn[i].req.Flushes \cap FlushedUpTo(i - 1) = {}
       /\ \E n \in 1..burst.received : FlushedUpTo(i) = 1..n
       /\ pushFn[i].req.ConfigsUpdated = PairsOf(pushFn[i].req.Flushes)
  /\ IF Unflushed = {} THEN debounce.req = NilRequest
     ELSE /\ debounce.req # NilRequest
          /\ debounce.req.Flushes = Unflushed
          /\ debounce.req.ConfigsUpdated = PairsOf(Unflushed)

\* C15: every event received is in exactly one batch passed to pushFn: the batches are
\* the unions of the events received between two pushes, none is pushed twice, and
\* unless debounce is stopped every received event is eventually passed to pushFn
C15_ExactlyOnce ==
  /\ []C15_Batches
  /\ \A id \in 1..MaxEvents :
       (burst.received >= id) ~> (debounce.stopped \/ id \in FlushedUpTo(Len(pushFn)))

\* four events were passed to pushFn, in two batches, the second one holding three
\* events of two types, one of them the pair of the first batch again
C15_Witness ==
  /\ ~debounce.stopped
  /\ Len(pushFn) = 2
  /\ Unflushed = {}
  /\ pushFn[1].req.Flushes = {1}
  /\ pushFn[2].req.Flushes = {2, 3, 4}
  /\ pushFn[2].req.ConfigsUpdated["T"] = {"a", "b"}

(***************************************************************************)
(* Properties of the responses of the session (Spec).                      *)
(***************************************************************************)
\* the type the last step was about
EvType == IF ev.kind = "request" THEN ev.req.TypeUrl ELSE ev.t

\* the watched state of the last step's type when pushDeltaXds was entered
EvWatched ==
  IF ev.kind = "request" THEN shouldRespondDelta(prev, ev.req).W ELSE prev

\* the handler of the last step called GenerateDeltas for its type
CalledGenerator ==
  /\ ev.kind \in {"request", "push"}
  /\ Collections[EvType] # "none"
  /\ EvType \in DOMAIN EvWatched
  /\ ev.kind = "request" =>
       LET sr == shouldRespondDelta(prev, ev.req) IN sr.respond /\ ~sr.panic

\* ... and what the call returned
Generated ==
  IF ev.kind = "request"
  THEN GenerateDeltas(ev.c, RequestPush, EvType, EvWatched[EvType], SessionGateway,
                      SortedList(Names))
  ELSE GenerateDeltas(ev.c, ev.req, EvType, EvWatched[EvType], SessionGateway, ev.iter)

\* NonceSent of type t in the watched state W, none if t is not watched
NonceSentOf(W, t) == IF t \in DOMAIN W THEN W[t].NonceSent ELSE NoNonce

FirstSubscribeAB ==
  /\ FirstRequest
  /\ status = "active"
  /\ ev.req.TypeUrl = "T"
  /\ ev.req.ResponseNonce = NoNonce
  /\ ev.req.ErrorDetail = NoError
  /\ ev.req.ResourceNamesSubscribe = {"a", "b"}
  /\ ev.req.ResourceNamesUnsubscribe = {}
  /\ ev.req.InitialResourceVersions = {}

\* C18 as stated: the first request for T, with an empty nonce and subscribing to a
\* and b, is answered by exactly one response for T: added holds those of a and b that
\* exist and are visible and nothing else, removed is empty, and NonceSent of T is the
\* response's nonce.
C18_AsStated ==
  FirstSubscribeAB =>
    /\ Len(out) = 1
    /\ out[1].TypeUrl = "T"
    /\ out[1].Resources = {d \in ev.c : VisibleTo(d, SessionGateway) /\ d.Name \in {"a", "b"}}
    /\ out[1].RemovedResources = <<>>
    /\ WatchedResources["T"].NonceSent = out[1].Nonce

\* the last step handled, without error, a scheduled push of the batch {t: b} for a
\* registered type t the session watches, whose collection holds no resource b
PushOfDeleted ==
  /\ ev.kind = "push"
  /\ status = "active"
  /\ Collections[ev.t] # "none"
  /\ ev.t \in DOMAIN prev
  /\ ev.req.ConfigsUpdated[ev.t] = {"b"}
  /\ \A d \in ev.c : d.Name # "b"

Unsubscribes(n) ==
  /\ RequestOnWatched
  /\ status = "active"
  /\ Collections[ev.req.TypeUrl] # "none"
  /\ ev.req.ErrorDetail = NoError
  /\ ev.req.ResponseNonce # NoNonce
  /\ ev.req.ResponseNonce = prev[ev.req.TypeUrl].NonceSent
  /\ ev.req.ResourceNamesSubscribe = {}
  /\ ev.req.ResourceNamesUnsubscribe = {n}
  /\ ev.req.InitialResourceVersions = {}

\* C20 as stated: a request unsubscribing a, with the last nonce sent for the type, is
\* answered by a response with nothing added and removed = [a] if a was tracked, by
\* nothing if it was not, and a is not tracked afterwards.
C20_AsStated ==
  \A n \in Names :
    Unsubscribes(n) =>
      /\ IF n \in prev[ev.req.TypeUrl].ResourceNames
         THEN /\ Len(out) = 1
              /\ out[1].Resources = {}
              /\ out[1].RemovedResources = <<n>>
         ELSE out = <<>>
      /\ n \notin WatchedResources[ev.req.TypeUrl].ResourceNames

\* C27: no response sent to the session, after a request (full mode) or a scheduled
\* push (incremental mode), adds a resource whose ForGateway is set and is not the
\* session's gateway
C27_OwnScopeOnly ==
  \A i \in DOMAIN out :
    \A d \in out[i].Resources : d.ForGateway = NoGateway \/ d.ForGateway = SessionGateway

\* a scheduled push of a name borne by a resource of the session's gateway and by one
\* of another gateway added the session's resource only
C27_Witness ==
  /\ ev.kind = "push"
  /\ DiscoveryResource("a", "g2") \in ev.c
  /\ DiscoveryResource("a", SessionGateway) \in ev.c
  /\ Len(out) = 1
  /\ out[1].Resources = {DiscoveryResource("a", SessionGateway)}

\* C29 as stated: every response, to a request or for a scheduled push, carries as its
\* version a value of the push counter, and its nonce is derived from that version.
C29_AsStated ==
  \A i \in DOMAIN out :
    /\ out[i].SystemVersionInfo \in 1..pushVersion
    /\ out[i].Nonce[1] = out[i].SystemVersionInfo

\* C28: every response sent on the session carried a nonce no earlier response of the
\* session carried, and NonceSent of every type is the nonce of the last response of
\* that type that was sent, none while no response of the type was sent
C28_NonceSent ==
  /\ sent.unique
  /\ \A t \in Types : NonceSentOf(WatchedResources, t) = sent.last[t]

\* a response to a request and then a response for a scheduled push were sent for a
\* type, and NonceSent is the nonce of the second
C28_Witness ==
  /\ sent.nonces = {nonce(NoVersion, 1), nonce(1, 2)}
  /\ \E t \in DOMAIN WatchedResources : WatchedResources[t].NonceSent = nonce(1, 2)

(***************************************************************************)
(* SpecM: single calls of PushRequest.Merge.                               *)
(***************************************************************************)
\* the batches of changed names, stamped with version v
Batches(v) == {ConfigPush(cu, v) : cu \in [Types -> SUBSET Names]}

\* the calls pr.Merge(other): each operand nil or a batch
MergeCalls ==
  {[pr |-> x, other |-> y, done |-> FALSE, result |-> NilRequest] :
     x \in Batches(1) \cup {NilRequest}, y \in Batches(2) \cup {NilRequest}}

InitM == SessionIdle /\ QueueIdle /\ GenIdle /\ DebounceIdle /\ DecideIdle /\ ConnIdle /\ ServerIdle /\ StreamIdle /\ merged \in MergeCalls

\* the call returns
MergeCall ==
  /\ merged # <<>>
  /\ ~merged.done
  /\ merged' = [merged EXCEPT !.done = TRUE, !.result = Merge(merged.pr, merged.other)]
  /\ UNCHANGED <<sessVars, queueVars, gen, decided, connVars, serverVars, debVars, streamVars>>

NextM == MergeCall

SpecM == InitM /\ [][NextM]_vars

\* the (type, name) pairs of a request, none for nil
Pairs(req) ==
  IF req = NilRequest THEN {}
  ELSE {<<t, n>> : t \in Types, n \in Names} \cap
       UNION {{<<t, n>> : n \in req.ConfigsUpdated[t]} : t \in Types}

\* C30: Merge of two batches holds, for every type, the union of the names of both;
\* Merge with nil on either side is the other operand as it was; and the pairs of the
\* result are those of the merge in the other order
C30_Union ==
  (merged # <<>> /\ merged.done) =>
    /\ merged.pr = NilRequest => merged.result = merged.other
    /\ merged.other = NilRequest => merged.result = merged.pr
    /\ (merged.pr # NilRequest /\ merged.other # NilRequest) =>
         \A t \in Types :
           merged.result.ConfigsUpdated[t]
             = merged.pr.ConfigsUpdated[t] \cup merged.other.ConfigsUpdated[t]
    /\ Pairs(merged.result) = Pairs(Merge(merged.other, merged.pr))

\* a merge of two batches that share a type with different names and each have a type
\* of their own, whose result differs from the merge in the other order by its version
C30_Witness ==
  /\ merged # <<>> /\ merged.done
  /\ merged.pr # NilRequest /\ merged.other # NilRequest
  /\ merged.pr.ConfigsUpdated = [t \in Types |-> IF t = "U" THEN {} ELSE {"a"}]
  /\ merged.other.ConfigsUpdated = [t \in Types |-> IF t = AddressType THEN {} ELSE {"b"}]
  /\ merged.result.ConfigsUpdated["T"] = {"a", "b"}
  /\ merged.result # Merge(merged.other, merged.pr)

(***************************************************************************)
(* One stream (SpecS): StreamDeltas starts receiveDelta and runs the       *)
(* control loop; the dispatcher of SpecQ offers the pushes.  Nothing calls *)
(* Connection.Stop, so the cases on StopCh never fire and are left out.    *)
(***************************************************************************)
\* the connection of the stream
StreamCon == "c1"

\* capacity of deltaReqChan
ReqChanCap == 1

\* the requests of a stream are numbered in receipt order, modulo SeqMod
SeqMod == 3

\* the number following n
NextSeq(n) == (n % SeqMod) + 1

\* the error receiveDelta reports for a first request without node or node id
InvalidArgument == "missing node information"

\* the error of a failed send, and the unexpected error of a failed Recv
SendError == "send"
RecvError == "recv"

\* the history of a stream that has just been opened
NoTrace == [received |-> 0,         \* number of the last request received
            probes |-> FALSE,       \* a health probe was skipped
            noNode |-> FALSE,       \* the first request named no node
            handled |-> 0,          \* number of the last request the loop took
            inOrder |-> TRUE,       \* every request was taken in receipt order
            preInit |-> FALSE,      \* the loop took something before MarkInitialized
            first |-> "none",       \* what the first select of the iteration found
            result |-> "running"]   \* what StreamDeltas returned

\* StreamDeltas made the connection and started receiveDelta; it waits on InitializedCh
InitS ==
  /\ SessionIdle /\ QueueIdle /\ GenIdle /\ DebounceIdle /\ DecideIdle /\ ConnIdle /\ ServerIdle /\ MergeIdle
  /\ receiver = "Recv"
  /\ firstRequest = TRUE
  /\ recvReq = 0
  /\ deltaReqChan = [buf |-> <<>>, closed |-> FALSE]
  /\ errorCh = [err |-> NoError, closed |-> FALSE]
  /\ initialized = "open"
  /\ loop = "InitializedCh"
  /\ trace = NoTrace

\* what the dispatcher and the other specifications own
notStream == <<sessVars, callVars, connVars, serverVars, debVars>>
dispatchVars == <<pending, queue, processing, semaphore, dispatcher, handoff, handling,
                  doneCalls, delivered>>

\* ---- receiveDelta ----

\* Recv returns a health probe before the first request: it is skipped
RecvProbe ==
  /\ receiver = "Recv" /\ StreamCon \notin closedStreams
  /\ firstRequest
  /\ trace' = [trace EXCEPT !.probes = TRUE]
  /\ UNCHANGED <<notStream, queueVars, receiver, firstRequest, recvReq, deltaReqChan,
                 errorCh, initialized, loop>>

\* (mutant) the first request is taken for a request of a node, whatever it names
RecvMissingNodeUnchecked ==
  /\ receiver = "Recv" /\ StreamCon \notin closedStreams
  /\ firstRequest
  /\ firstRequest' = FALSE
  /\ adsClients' = adsClients \cup {StreamCon}
  /\ recvReq' = NextSeq(trace.received)
  /\ trace' = [trace EXCEPT !.received = NextSeq(@), !.noNode = TRUE]
  /\ receiver' = "MarkInitialized"
  /\ UNCHANGED <<notStream, closedStreams, returned, dispatchVars, deltaReqChan, errorCh,
                 initialized, loop>>

\* the first request has no node or an empty node id: InvalidArgument, and return
RecvMissingNode ==
  /\ receiver = "Recv" /\ StreamCon \notin closedStreams
  /\ firstRequest
  /\ firstRequest' = FALSE
  /\ errorCh' = [errorCh EXCEPT !.err = InvalidArgument]
  /\ trace' = [trace EXCEPT !.noNode = TRUE]
  /\ receiver' = "deferred"
  /\ UNCHANGED <<notStream, queueVars, recvReq, deltaReqChan, initialized, loop>>

\* (mutant) addCon leaves the table as it is
addConLate(con) ==
  /\ adsClients' = adsClients
  /\ UNCHANGED <<closedStreams, returned, dispatchVars>>

\* addCon
addCon(con) ==
  /\ adsClients' = adsClients \cup {con}
  /\ UNCHANGED <<closedStreams, returned, dispatchVars>>

\* the first request names its node: initConnection as far as addCon
RecvInitConnection ==
  /\ receiver = "Recv" /\ StreamCon \notin closedStreams
  /\ firstRequest
  /\ firstRequest' = FALSE
  /\ addCon(StreamCon)
  /\ recvReq' = NextSeq(trace.received)
  /\ trace' = [trace EXCEPT !.received = NextSeq(@)]
  /\ receiver' = "MarkInitialized"
  /\ UNCHANGED <<notStream, deltaReqChan, errorCh, initialized, loop>>

\* the deferred MarkInitialized of initConnection; receiveDelta goes on to its select
MarkInitialized ==
  /\ receiver = "MarkInitialized"
  /\ initialized' = "marked"
  /\ receiver' = "send"
  /\ UNCHANGED <<notStream, queueVars, firstRequest, recvReq, deltaReqChan, errorCh, loop,
                 trace>>

\* Recv returns a later request
RecvRequest ==
  /\ receiver = "Recv" /\ StreamCon \notin closedStreams
  /\ ~firstRequest
  /\ recvReq' = NextSeq(trace.received)
  /\ trace' = [trace EXCEPT !.received = NextSeq(@)]
  /\ receiver' = "send"
  /\ UNCHANGED <<notStream, queueVars, firstRequest, deltaReqChan, errorCh, initialized, loop>>

\* Recv returns an error: an unexpected one is reported on ErrorCh; receiveDelta returns
RecvErr(unexpected) ==
  /\ receiver = "Recv"
  /\ errorCh' = IF unexpected THEN [errorCh EXCEPT !.err = RecvError] ELSE errorCh
  /\ receiver' = IF firstRequest THEN "deferred" ELSE "closeConnection"
  /\ UNCHANGED <<notStream, queueVars, firstRequest, recvReq, deltaReqChan, initialized,
                 loop, trace>>

\* a send on deltaReqChan
Send(ch, req) == [ch EXCEPT !.buf = Append(@, req)]

\* whether a send on the channel would block
Full(ch) == Len(ch.buf) >= ReqChanCap

\* (mutant) receiveDelta does not wait for room in deltaReqChan: a request that
\* finds it full takes the place of the one buffered
SendOnReqChanAnyway ==
  /\ receiver = "send"
  /\ deltaReqChan' = IF Full(deltaReqChan) THEN [deltaReqChan EXCEPT !.buf = <<recvReq>>]
                     ELSE Send(deltaReqChan, recvReq)
  /\ recvReq' = 0
  /\ receiver' = "Recv"
  /\ UNCHANGED <<notStream, queueVars, firstRequest, errorCh, initialized, loop, trace>>

\* case con.deltaReqChan <- req
SendOnReqChan ==
  /\ receiver = "send"
  /\ ~Full(deltaReqChan)
  /\ deltaReqChan' = Send(deltaReqChan, recvReq)
  /\ recvReq' = 0
  /\ receiver' = "Recv"
  /\ UNCHANGED <<notStream, queueVars, firstRequest, errorCh, initialized, loop, trace>>

\* case <-con.deltaStream.Context().Done(): receiveDelta returns
SendCancelled ==
  /\ receiver = "send"
  /\ StreamCon \in closedStreams
  /\ receiver' = "closeConnection"
  /\ UNCHANGED <<notStream, queueVars, firstRequest, recvReq, deltaReqChan, errorCh,
                 initialized, loop, trace>>

\* (mutant) receiveDelta returns without closeConnection
RemoveConSkipped ==
  /\ receiver = "closeConnection"
  /\ receiver' = "deferred"
  /\ UNCHANGED <<notStream, queueVars, firstRequest, recvReq, deltaReqChan, errorCh,
                 initialized, loop, trace>>

\* the deferred closeConnection: removeCon
RemoveCon ==
  /\ receiver = "closeConnection"
  /\ adsClients' = adsClients \ {StreamCon}
  /\ receiver' = "deferred"
  /\ UNCHANGED <<notStream, closedStreams, returned, dispatchVars, firstRequest, recvReq,
                 deltaReqChan, errorCh, initialized, loop, trace>>

\* (mutant) the deferred function of receiveDelta leaves InitializedCh as it is
ReceiveDeltaDeferredOpen ==
  /\ receiver = "deferred"
  /\ deltaReqChan' = [deltaReqChan EXCEPT !.closed = TRUE]
  /\ errorCh' = [errorCh EXCEPT !.closed = TRUE]
  /\ receiver' = "done"
  /\ UNCHANGED <<notStream, queueVars, firstRequest, recvReq, initialized, loop, trace>>

\* the deferred function of receiveDelta: deltaReqChan and ErrorCh are closed, and
\* InitializedCh too if it is still open
ReceiveDeltaDeferred ==
  /\ receiver = "deferred"
  /\ deltaReqChan' = [deltaReqChan EXCEPT !.closed = TRUE]
  /\ errorCh' = [errorCh EXCEPT !.closed = TRUE]
  /\ initialized' = IF initialized = "open" THEN "closed" ELSE initialized
  /\ receiver' = "done"
  /\ UNCHANGED <<notStream, queueVars, firstRequest, recvReq, loop, trace>>

\* the peer goes away: the context of the stream is done
StreamCancelled ==
  /\ StreamCon \notin closedStreams
  /\ closedStreams' = closedStreams \cup {StreamCon}
  /\ UNCHANGED <<notStream, adsClients, returned, dispatchVars, streamVars>>

\* ---- the control loop of StreamDeltas ----

\* a push is offered to the session: a goroutine of sendPushes is blocked on PushCh
Offered == {e \in handoff : e.con = StreamCon}

\* (mutant) StreamDeltas enters its loop without waiting on InitializedCh
WaitInitializedSkipped ==
  /\ loop = "InitializedCh"
  /\ loop' = "select1"
  /\ UNCHANGED <<notStream, queueVars, receiver, firstRequest, recvReq, deltaReqChan,
                 errorCh, initialized, trace>>

\* <-con.InitializedCh() returns once the channel is closed
WaitInitialized ==
  /\ loop = "InitializedCh"
  /\ initialized # "open"
  /\ loop' = "select1"
  /\ UNCHANGED <<notStream, queueVars, receiver, firstRequest, recvReq, deltaReqChan,
                 errorCh, initialized, trace>>

\* case req, ok := <-con.deltaReqChan with ok: the loop takes the oldest request
TakeRequest(found, to) ==
  /\ deltaReqChan.buf # <<>>
  /\ deltaReqChan' = [deltaReqChan EXCEPT !.buf = Tail(@)]
  /\ trace' = [trace EXCEPT !.handled = Head(deltaReqChan.buf),
                            !.inOrder = @ /\ Head(deltaReqChan.buf) = NextSeq(trace.handled),
                            !.preInit = @ \/ initialized # "marked",
                            !.first = found]
  /\ loop' = to
  /\ UNCHANGED <<notStream, queueVars, receiver, firstRequest, recvReq, errorCh, initialized>>

\* the handler returns: the context of the stream is done
Return(err) ==
  /\ loop' = "returned"
  /\ trace' = [trace EXCEPT !.result = err]
  /\ returned' = returned \cup {StreamCon}
  /\ closedStreams' = closedStreams \cup {StreamCon}

\* case req, ok := <-con.deltaReqChan with !ok: return <-con.ErrorCh()
ChannelClosed ==
  /\ deltaReqChan.buf = <<>>
  /\ deltaReqChan.closed
  /\ errorCh.err # NoError \/ errorCh.closed
  /\ Return(errorCh.err)
  /\ errorCh' = [errorCh EXCEPT !.err = NoError]
  /\ UNCHANGED <<notStream, adsClients, dispatchVars, receiver, firstRequest, recvReq,
                 deltaReqChan, initialized>>

\* what the first select finds: a request and a push, or less
Found == IF deltaReqChan.buf # <<>> /\ Offered # {} THEN "both" ELSE "other"

\* the first select: a request is ready
Select1Request == loop = "select1" /\ TakeRequest(Found, "request1")

\* the first select: the channel is closed
Select1Closed == loop = "select1" /\ ChannelClosed

\* (mutant) the first select takes its default case whatever is ready
Select1DefaultAlways ==
  /\ loop = "select1"
  /\ loop' = "select2"
  /\ trace' = [trace EXCEPT !.first = Found]
  /\ UNCHANGED <<notStream, queueVars, receiver, firstRequest, recvReq, deltaReqChan,
                 errorCh, initialized>>

\* the first select: nothing is ready, default
Select1Default ==
  /\ loop = "select1"
  /\ deltaReqChan.buf = <<>> /\ ~deltaReqChan.closed
  /\ loop' = "select2"
  /\ trace' = [trace EXCEPT !.first = Found]
  /\ UNCHANGED <<notStream, queueVars, receiver, firstRequest, recvReq, deltaReqChan,
                 errorCh, initialized>>

\* the second select: a request is ready and chosen
Select2Request == loop = "select2" /\ TakeRequest(trace.first, "request2")

\* the second select: the channel is closed
Select2Closed == loop = "select2" /\ ChannelClosed

\* (mutant) the second select takes a push only when no request is ready
Select2PushLast(pushEv) ==
  /\ loop = "select2"
  /\ deltaReqChan.buf = <<>>
  /\ pushEv \in Offered
  /\ HandOver(pushEv)
  /\ loop' = "push"
  /\ trace' = [trace EXCEPT !.preInit = @ \/ initialized # "marked"]
  /\ UNCHANGED <<notStream, adsClients, closedStreams, returned, dispatcher, receiver,
                 firstRequest, recvReq, deltaReqChan, errorCh, initialized>>

\* the second select: case ev := <-con.PushCh() is ready and chosen
Select2Push(pushEv) ==
  /\ loop = "select2"
  /\ pushEv \in Offered
  /\ HandOver(pushEv)
  /\ loop' = "push"
  /\ trace' = [trace EXCEPT !.preInit = @ \/ initialized # "marked"]
  /\ UNCHANGED <<notStream, adsClients, closedStreams, returned, dispatcher, receiver,
                 firstRequest, recvReq, deltaReqChan, errorCh, initialized>>

\* processDeltaRequest returns: on an error the loop returns it, else it goes on to the
\* second select after the first, and to the next iteration after the second
FinishRequest(ok) ==
  /\ loop \in {"request1", "request2"}
  /\ IF ok
     THEN /\ loop' = IF loop = "request1" THEN "select2" ELSE "select1"
          /\ UNCHANGED <<trace, returned, closedStreams>>
     ELSE Return(SendError)
  /\ UNCHANGED <<notStream, adsClients, dispatchVars, receiver, firstRequest, recvReq,
                 deltaReqChan, errorCh, initialized>>

\* pushConnectionDelta returns: Done is called, then an error is returned
FinishStreamPush(pushEv, ok) ==
  /\ loop = "push"
  /\ pushEv \in handling /\ pushEv.con = StreamCon
  /\ handling' = handling \ {pushEv}
  /\ doneFunc(pushEv)
  /\ IF ok
     THEN /\ loop' = "select1"
          /\ UNCHANGED <<trace, returned, closedStreams>>
     ELSE Return(SendError)
  /\ UNCHANGED <<notStream, adsClients, dispatcher, handoff, delivered, receiver,
                 firstRequest, recvReq, deltaReqChan, errorCh, initialized>>

NextS ==
  \/ RecvProbe
  \/ RecvMissingNode
  \/ RecvInitConnection
  \/ MarkInitialized
  \/ RecvRequest
  \/ \E unexpected \in BOOLEAN : RecvErr(unexpected)
  \/ SendOnReqChan
  \/ SendCancelled
  \/ RemoveCon
  \/ ReceiveDeltaDeferred
  \/ StreamCancelled
  \/ WaitInitialized
  \/ Select1Request
  \/ Select1Closed
  \/ Select1Default
  \/ Select2Request
  \/ Select2Closed
  \/ \E pushEv \in handoff : Select2Push(pushEv)
  \/ \E ok \in BOOLEAN : FinishRequest(ok)
  \/ \E pushEv \in handling, ok \in BOOLEAN : FinishStreamPush(pushEv, ok)
  \/ Push
  \/ AcquireSlot
  \/ DequeuePush
  \/ \E pushEv \in handoff : ClosedHandOver(pushEv)

SpecS == InitS /\ [][NextS]_vars

(***************************************************************************)
(* Properties of the stream (SpecS).                                       *)
(***************************************************************************)
\* the entry of the push queue a connection's next batch is merged into
QueuedFor(con) ==
  IF con \in DOMAIN processing' /\ processing'[con] # NilRequest THEN processing'[con]
  ELSE IF con \in DOMAIN pending' THEN pending'[con]
  ELSE NilRequest

\* a step of MarkInitialized
MarkedNow == initialized = "open" /\ initialized' = "marked"

\* a step of Push
PushedNow == pushVersion' = pushVersion + 1

\* C21: the session is in the connection table when it is marked initialized, and
\* while it waits to be; a Push issued while it is in the table enqueues it, marked
\* or not; and until it is marked initialized its control loop waits on InitializedCh
\* and takes no request and no push.
C21_RegisteredBeforeInitialized ==
  /\ [](receiver = "MarkInitialized" => StreamCon \in adsClients /\ initialized = "open")
  /\ [][MarkedNow => StreamCon \in adsClients]_vars
  /\ [][PushedNow /\ StreamCon \in adsClients
          => /\ QueuedFor(StreamCon) # NilRequest
             /\ pushVersion' \in QueuedFor(StreamCon).Flushes]_vars
  /\ [](initialized = "open" => loop = "InitializedCh")
  /\ [](~trace.preInit /\ (initialized # "marked" => handling = {}))

\* a push enqueued after addCon is offered to the session, which is not yet marked
\* initialized: its loop still waits
C21_Witness ==
  /\ receiver = "MarkInitialized"
  /\ initialized = "open"
  /\ Offered # {}
  /\ loop = "InitializedCh"

\* a step of receiveDelta skipping a health probe
ProbeSkipped == ~trace.probes /\ trace'.probes

\* C23: once the first request that is no health probe names no node, the session
\* is never in the connection table, never marked initialized, never queued for a push
\* nor offered one, and its loop handles nothing: it can only return, and what
\* StreamDeltas returns is the InvalidArgument error.  A health probe received before
\* the first request changes nothing: the next request is still the first.
C23_MissingNodeRejected ==
  /\ [](trace.noNode =>
          /\ StreamCon \notin adsClients
          /\ initialized # "marked"
          /\ StreamCon \notin DOMAIN pending \cup DOMAIN processing
          /\ Offered = {} /\ handling = {}
          /\ trace.handled = 0 /\ deltaReqChan.buf = <<>>
          /\ loop \in {"InitializedCh", "select1", "returned"}
          /\ (loop = "returned" => trace.result = InvalidArgument)
          /\ (loop # "returned" => errorCh.err = InvalidArgument))
  /\ [][ProbeSkipped => /\ firstRequest /\ firstRequest'
                        /\ UNCHANGED <<queueVars, receiver, recvReq, deltaReqChan,
                                       errorCh, initialized, loop>>]_vars

\* a health probe was skipped, the request after it named no node, and StreamDeltas
\* returned InvalidArgument while Push calls went on
C23_Witness ==
  /\ trace.probes /\ trace.noNode
  /\ loop = "returned" /\ trace.result = InvalidArgument
  /\ pushVersion > 0

\* the requests received from the stream and not yet taken by the loop, oldest first
Waiting ==
  deltaReqChan.buf \o (IF recvReq # 0 /\ receiver \in {"MarkInitialized", "send"}
                       THEN <<recvReq>> ELSE <<>>)

\* the numbers following n, as many as the sequence s is long
RECURSIVE Following(_, _)
Following(n, s) == IF s = <<>> THEN TRUE
                   ELSE Head(s) = NextSeq(n) /\ Following(Head(s), Tail(s))

\* what the loop of the session is handling
HandlingRequest == loop \in {"request1", "request2"}
HandlingPush == {e \in handling : e.con = StreamCon}

\* C26: the loop takes the requests in the order receiveDelta received them, none
\* skipped and none twice: each request taken is the one received after the request
\* taken before it, and the requests still waiting are those received since, in
\* order (a request is given up only when the stream's context is done).  While a
\* request is handled no push is, and at most one push is handled.
C26_InReceiptOrder ==
  /\ trace.inOrder
  /\ Following(trace.handled, Waiting)
  /\ (StreamCon \notin closedStreams =>
        trace.received = IF Waiting = <<>> THEN trace.handled ELSE Waiting[Len(Waiting)])
  /\ ~(HandlingRequest /\ HandlingPush # {})
  /\ Cardinality(HandlingPush) <= 1
  /\ (HandlingPush # {} <=> loop = "push")

\* the loop handles a request while the next one is buffered and the one after it is
\* held by receiveDelta, and a push is offered
C26_Witness ==
  /\ HandlingRequest
  /\ trace.handled = 2
  /\ Len(Waiting) = 2
  /\ Offered # {}

\* Recv on a stream whose context is done returns an error that is not unexpected
RecvCancelled == StreamCon \in closedStreams /\ RecvErr(FALSE)

\* the scheduling of a stream: the goroutines of the loop and of receiveDelta go on
\* when they can, and a select with several ready cases chooses each of them again
\* and again (Go chooses among the ready cases at random), so that the push case of
\* the second select, ready whenever the loop comes back to it, is chosen at last.
\* Recv returns an error once the context of the stream is done, and the dispatcher
\* and its goroutines go on too.  What the peer sends, and when, is not constrained.
SpecSLive ==
  /\ SpecS
  /\ WF_vars(RecvCancelled)
  /\ WF_vars(SendCancelled)
  /\ WF_vars(RemoveCon)
  /\ WF_vars(ReceiveDeltaDeferred)
  /\ WF_vars(Select2Closed)
  /\ WF_vars(AcquireSlot)
  /\ WF_vars(DequeuePush)
  /\ WF_vars(\E pushEv \in handoff : ClosedHandOver(pushEv))
  /\ WF_vars(MarkInitialized)
  /\ WF_vars(WaitInitialized)
  /\ WF_vars(Select1Request)
  /\ WF_vars(Select1Closed)
  /\ WF_vars(Select1Default)
  /\ WF_vars(\E ok \in BOOLEAN : FinishRequest(ok))
  /\ WF_vars(\E pushEv \in handling, ok \in BOOLEAN : FinishStreamPush(pushEv, ok))
  /\ SF_vars(\E pushEv \in handoff : Select2Push(pushEv))

\* C25: when the first select of an iteration finds a request and a push both
\* pending, the loop's next step takes the request; and a push offered to the
\* session is taken by its loop in the end, however many requests keep arriving,
\* unless the stream ends first.
C25_RequestsFirstPushesNotStarved ==
  /\ [][loop = "select1" /\ Found = "both" /\ loop' # loop
          => loop' = "request1" /\ trace'.handled = Head(deltaReqChan.buf)]_vars
  /\ [][loop' = "push" /\ loop # "push" => loop = "select2"]_vars
  /\ (Offered # {} ~> (HandlingPush # {} \/ StreamCon \in closedStreams))

\* the first select found a request and a push, the request was handled, and the
\* loop now handles the push while two more requests wait
C25_Witness ==
  /\ trace.first = "both"
  /\ loop = "push"
  /\ Len(Waiting) = 2
  /\ trace.handled = 3

\* the session was registered by initConnection
Registered == ~firstRequest /\ ~trace.noNode

\* the stream of the session terminated: its context is done (cancelled, or the loop
\* returned), or Recv failed and receiveDelta is returning
Terminated == StreamCon \in closedStreams \/ receiver \in {"closeConnection", "deferred", "done"}

\* nothing of the session is left in the table, the semaphore or the push queue
Cleared ==
  /\ StreamCon \notin adsClients
  /\ InFlight(StreamCon) = {}
  /\ StreamCon \notin DOMAIN pending \cup DOMAIN processing
  /\ StreamCon \notin Range(queue)

\* a step that puts the session in the connection table
InsertedNow == StreamCon \notin adsClients /\ StreamCon \in adsClients'

\* firstRequest, once false, stays false
FirstRequestPassed == ~firstRequest => ~firstRequest'

\* C22: after the stream of a registered session terminates, the session is in the
\* end out of the connection table, no push dequeued for it holds a slot of the
\* semaphore, and nothing is pending for it in the push queue; and the session
\* enters the table only on its first request, once, so never again after removal.
C22_TornDown ==
  /\ (Registered /\ Terminated) ~> Cleared
  /\ [][InsertedNow => firstRequest /\ ~firstRequest']_vars
  /\ [][FirstRequestPassed]_vars

\* the stream ended while a push of the session held the only slot and a later batch
\* was merged behind it; all of it has been cleared
C22_Witness ==
  /\ Registered /\ Terminated /\ Cleared
  /\ Len(doneCalls) >= 2
  /\ \A i \in 1..Len(doneCalls) : doneCalls[i] = 1
  /\ pushVersion = MaxPushCalls

(***************************************************************************)
(* One handler of the loop on a session that watches several types (SpecT):*)
(* the loop has taken a push or a request and handles it; a send may fail. *)
(***************************************************************************)
\* a first request of the proxy for all the resources of type t
WildcardRequest(t) == DeltaDiscoveryRequest(t, <<{}, {}, {}>>, NoNonce, NoError)

\* the session after its first requests, for the types of ts in turn, were handled
\* while the collections held cols
RECURSIVE FirstRequests(_, _, _)
FirstRequests(S, ts, cols) ==
  IF ts = <<>> THEN S
  ELSE LET R == processDeltaRequest(Session(S.W, S.uuid, S.held), WildcardRequest(Head(ts)),
                                    cols[Head(ts)], TRUE, SortedList(Names))
       IN FirstRequests([R EXCEPT !.out = S.out \o R.out], Tail(ts), cols)

\* the push event the loop has taken: the first Push call, for the names changed
PushEvent(changed) ==
  [id |-> 1, con |-> StreamCon,
   PushRequest |-> ConfigPush([t \in Types |-> changed], 1)]

\* the loop of a session that made its first requests has just taken a push of the
\* dispatcher, or a further request
InitT ==
  /\ GenIdle /\ DebounceIdle /\ DecideIdle /\ ConnIdle /\ ServerIdle /\ MergeIdle
  /\ \E cT \in SessionContents(Collections["T"]),
        cA \in SessionContents(Collections[AddressType]),
        ts \in {<<"T">>, <<"T", AddressType>>, <<"T", AddressType, "U">>},
        changed \in SUBSET Names, taken \in {"push", "request2"} :
       LET cols == [t \in Types |-> CASE t = "T" -> cT [] t = AddressType -> cA [] OTHER -> {}]
           S == FirstRequests(Session(<<>>, 0, [t \in Types |-> {}]), ts, cols)
           pushEv == PushEvent(changed)
       IN /\ WatchedResources = S.W /\ uuid = S.uuid /\ held = S.held
          /\ sent = Sent([nonces |-> {}, last |-> [t \in Types |-> NoNonce], unique |-> TRUE],
                         S.out)
          /\ status = "active" /\ ev = Idle /\ prev = <<>> /\ out = <<>>
          /\ pushVersion = IF taken = "push" THEN 1 ELSE 0
          /\ adsClients = {StreamCon} /\ closedStreams = {} /\ returned = {}
          /\ pending = <<>> /\ queue = <<>>
          /\ processing = IF taken = "push" THEN MapSet(<<>>, StreamCon, NilRequest) ELSE <<>>
          /\ semaphore = IF taken = "push" THEN 1 ELSE 0
          /\ dispatcher = "select"
          /\ handoff = {}
          /\ handling = IF taken = "push" THEN {pushEv} ELSE {}
          /\ doneCalls = IF taken = "push" THEN <<0>> ELSE <<>>
          /\ delivered = [con \in Conns |->
                            IF taken = "push" /\ con = StreamCon
                            THEN [count |-> 1, last |-> 1, inOrder |-> TRUE]
                            ELSE [count |-> 0, last |-> 0, inOrder |-> TRUE]]
          /\ receiver = "Recv" /\ firstRequest = FALSE /\ recvReq = 0
          /\ deltaReqChan = [buf |-> <<>>, closed |-> FALSE]
          /\ errorCh = [err |-> NoError, closed |-> FALSE]
          /\ initialized = "marked"
          /\ loop = taken
          /\ trace = [NoTrace EXCEPT !.first = "other",
                                     !.received = IF taken = "push" THEN Len(ts)
                                                  ELSE NextSeq(Len(ts)),
                                     !.handled = IF taken = "push" THEN Len(ts)
                                                 ELSE NextSeq(Len(ts))]

\* the loop after a handler ended as S: back to its selects, or returning the error
\* of the send, or gone with the process in a panic
LoopAfter(S) ==
  CASE S.err = "none" -> /\ loop' = "select1"
                         /\ UNCHANGED <<trace, returned, closedStreams>>
    [] S.err = "send" -> Return(SendError)
    [] OTHER -> /\ loop' = "panic"
                /\ UNCHANGED <<trace, returned, closedStreams>>

\* case ev := <-con.PushCh(): pushConnectionDelta, then pushEv.Done(), then the error
\* if there is one
HandlePush(pushEv) ==
  /\ loop = "push"
  /\ pushEv \in handling /\ pushEv.con = StreamCon
  /\ \E cT \in SessionContents(Collections["T"]),
        cA \in SessionContents(Collections[AddressType]),
        maporder \in MapOrders, failing \in {"none"} \cup DOMAIN WatchedResources :
       LET cols == [t \in Types |-> CASE t = "T" -> cT [] t = AddressType -> cA [] OTHER -> {}]
           torder == watchedResourcesByOrder(WatchedResources, maporder)
           S == pushConnectionDelta(Session(WatchedResources, uuid, held), torder,
                                    pushEv.PushRequest, cols, failing, SortedList(Names))
       IN /\ Record(S, [kind |-> "push", id |-> pushEv.id, req |-> pushEv.PushRequest,
                        order |-> torder, failing |-> failing, cols |-> cols])
          /\ LoopAfter(S)
  /\ handling' = handling \ {pushEv}
  /\ doneFunc(pushEv)
  /\ UNCHANGED <<pushVersion, adsClients, dispatcher, handoff, delivered, callVars, connVars, serverVars, debVars,
                 receiver, firstRequest, recvReq, deltaReqChan, errorCh, initialized>>

\* case req, ok := <-con.deltaReqChan: processDeltaRequest, then the error if there is one
HandleRequest ==
  /\ loop \in {"request1", "request2"}
  /\ \E t \in Types, n \in NonceChoices, l \in {<<{}, {}, {}>>, <<{"a"}, {}, {}>>} :
       LET req == DeltaDiscoveryRequest(t, l, n, NoError)
           sr == shouldRespondDelta(WatchedResources, req)
           reads == sr.respond /\ ~sr.panic
       IN \E c \in IF reads THEN SessionContents(Collections[t]) ELSE {{}},
             ok \in IF reads THEN BOOLEAN ELSE {TRUE} :
            LET S == processDeltaRequest(Session(WatchedResources, uuid, held), req, c, ok,
                                         SortedList(Names))
            IN /\ Record(S, [kind |-> "request", req |-> req, c |-> c,
                             failing |-> IF ok THEN "none" ELSE t])
               /\ LoopAfter(S)
  /\ UNCHANGED <<pushVersion, adsClients, dispatchVars, callVars, connVars, serverVars, debVars, receiver,
                 firstRequest, recvReq, deltaReqChan, errorCh, initialized>>

NextT ==
  \/ \E pushEv \in handling : HandlePush(pushEv)
  \/ HandleRequest

SpecT == InitT /\ [][NextT]_vars

\* the place of type t in the order o (0 if it is not in it)
IndexOf(o, t) == IF \E i \in DOMAIN o : o[i] = t
                 THEN CHOOSE i \in DOMAIN o : o[i] = t ELSE 0

\* the last handler ended on a failed send
SendFailed == status = "closed"

\* C24: when a send fails, NonceSent of its type is what it was; for a push, only
\* types before it in the push order were sent and the watched state of the types
\* after it is untouched; the loop has returned the error of the send; and the Done
\* of a scheduled push was called all the same (once, giving back its slot).
C24_SendFailure ==
  SendFailed =>
    /\ NonceSentOf(WatchedResources, ev.failing) = NonceSentOf(prev, ev.failing)
    /\ sent.last[ev.failing] = NonceSentOf(prev, ev.failing)
    /\ loop = "returned" /\ trace.result = SendError /\ StreamCon \in returned
    /\ (ev.kind = "request" => out = <<>>)
    /\ ev.kind = "push" =>
         /\ \A i \in DOMAIN out :
              IndexOf(ev.order, out[i].TypeUrl) \in 1..(IndexOf(ev.order, ev.failing) - 1)
         /\ \A j \in DOMAIN ev.order :
              j >= IndexOf(ev.order, ev.failing) => WatchedResources[ev.order[j]] = prev[ev.order[j]]
         /\ doneCalls[ev.id] = 1 /\ handling = {} /\ semaphore = 0
         /\ StreamCon \notin DOMAIN processing

\* a push for T and the address type failed on T, the first in order, while the
\* address collection held a changed resource the proxy does not hold yet
C24_Witness ==
  /\ SendFailed /\ ev.kind = "push"
  /\ ev.order = <<"T", AddressType>> /\ ev.failing = "T"
  /\ ev.req.ConfigsUpdated[AddressType] = {"a"}
  /\ DiscoveryResource("a", NoGateway) \in ev.cols[AddressType]
  /\ held[AddressType] = {}
  /\ doneCalls = <<1>>

(***************************************************************************)
(* SpecCM: single calls of PushRequest.CopyMerge.  Here ConfigsUpdated is  *)
(* the Go map itself: a type is a key of it or not (a nil map has no key). *)
(***************************************************************************)
\* the maps from some types to sets of names
UpdateMaps == UNION {[D -> SUBSET Names] : D \in SUBSET Types}

\* a PushRequest holding the map cu
MapRequest(cu) == [ConfigsUpdated |-> cu]

\* the names a request holds for type t: none if t is no key of its map
NamesOf(req, t) ==
  IF req = NilRequest THEN {}
  ELSE IF t \in DOMAIN req.ConfigsUpdated THEN req.ConfigsUpdated[t] ELSE {}

\* (mutant) CopyMerge with the sets of a type in both maps united
CopyMergeUnion(pr, other) ==
  IF pr = NilRequest THEN other
  ELSE IF other = NilRequest THEN pr
  ELSE MapRequest([t \in DOMAIN pr.ConfigsUpdated \cup DOMAIN other.ConfigsUpdated |->
                     NamesOf(pr, t) \cup NamesOf(other, t)])

\* PushRequest.CopyMerge: nil yields the other operand; else a new request whose map
\* gets the entries of pr, then those of other, assigned key by key
CopyMerge(pr, other) ==
  IF pr = NilRequest THEN other
  ELSE IF other = NilRequest THEN pr
  ELSE MapRequest([t \in DOMAIN pr.ConfigsUpdated \cup DOMAIN other.ConfigsUpdated |->
                     IF t \in DOMAIN other.ConfigsUpdated THEN other.ConfigsUpdated[t]
                     ELSE pr.ConfigsUpdated[t]])

\* the calls pr.CopyMerge(other): each operand nil or a request; prAfter and
\* otherAfter are the operands as the call leaves them
CopyMergeCalls ==
  {[pr |-> x, other |-> y, done |-> FALSE, result |-> NilRequest,
    prAfter |-> x, otherAfter |-> y] :
     x \in {MapRequest(cu) : cu \in UpdateMaps} \cup {NilRequest},
     y \in {MapRequest(cu) : cu \in UpdateMaps} \cup {NilRequest}}

InitCM == SessionIdle /\ QueueIdle /\ GenIdle /\ DebounceIdle /\ DecideIdle /\ ConnIdle /\ ServerIdle /\ StreamIdle
          /\ merged \in CopyMergeCalls

\* the call returns: it assigned to the new request's map only
CopyMergeCall ==
  /\ merged # <<>>
  /\ ~merged.done
  /\ merged' = [merged EXCEPT !.done = TRUE, !.result = CopyMerge(merged.pr, merged.other)]
  /\ UNCHANGED <<sessVars, queueVars, gen, decided, connVars, serverVars, debVars, streamVars>>

NextCM == CopyMergeCall

SpecCM == InitCM /\ [][NextCM]_vars

\* C38 as stated: the result of CopyMerge holds, for every type, the names of both
\* operands, and the operands are after the call what they were before it.
C38_AsStated ==
  (merged # <<>> /\ merged.done) =>
    /\ \A t \in Types :
         NamesOf(merged.result, t) = NamesOf(merged.pr, t) \cup NamesOf(merged.other, t)
    /\ merged.prAfter = merged.pr
    /\ merged.otherAfter = merged.other

\* C33 as stated: after a request with an error detail was handled, whether or not
\* the session watched its type, the session is still running: the handler did not
\* panic and the stream was not closed.
C33_AsStated ==
  (ev.kind = "request" /\ ev.req.ErrorDetail # NoError) => status = "active"

\* the last step handled an accepted request on a watched type: no error detail, and
\* a nonce that is empty or the last one sent
Accepted ==
  /\ RequestOnWatched
  /\ ev.req.ErrorDetail = NoError
  /\ ev.req.ResponseNonce \in {NoNonce, prev[ev.req.TypeUrl].NonceSent}

\* the names the request of the last step puts in: subscribed and initial versions
Inserted == ev.req.ResourceNamesSubscribe \cup ev.req.InitialResourceVersions

\* the tracked names C37 gives for the request of the last step
TrackedAfter ==
  ((prev[ev.req.TypeUrl].ResourceNames \cup Inserted) \ ev.req.ResourceNamesUnsubscribe)
    \ {Star}

\* the request of the last step inserted a new name or unsubscribed a present one
CountsAsChange ==
  \/ Inserted \ prev[ev.req.TypeUrl].ResourceNames # {}
  \/ ev.req.ResourceNamesUnsubscribe \cap prev[ev.req.TypeUrl].ResourceNames # {}

EarlierNonce == nonce(NoVersion, 1)

\* the watched state of a session before the call: nothing, or type "T" with some
\* names, created by a first request and perhaps answered and rejected since
WatchedBefore ==
  {<<>>} \cup
  {MapSet(<<>>, "T", [NewWatchedResource(names, wildcard)
                        EXCEPT !.NonceSent = sentNonce, !.LastError = lastError]) :
     names \in SUBSET Names, wildcard \in BOOLEAN,
     sentNonce \in {NoNonce, EarlierNonce}, lastError \in {""} \cup ErrorMessages}

\* the calls shouldRespondDelta(request) on a session watching W
RespondCalls ==
  {[W |-> W, request |-> DeltaDiscoveryRequest("T", l, n, e), assertions |-> a,
    done |-> FALSE, result |-> <<>>] :
     W \in WatchedBefore, l \in NameLists, n \in {NoNonce, ForeignNonce, EarlierNonce},
     e \in {NoError} \cup ErrorMessages, a \in BOOLEAN}

InitR == SessionIdle /\ QueueIdle /\ GenIdle /\ DebounceIdle /\ ConnIdle /\ ServerIdle /\ MergeIdle /\ StreamIdle
         /\ decided \in RespondCalls

\* the call returns or panics
ShouldRespondDelta ==
  /\ decided # <<>>
  /\ ~decided.done
  /\ decided' = [decided EXCEPT
                   !.done = TRUE,
                   !.result = shouldRespondDeltaWith(decided.assertions, decided.W,
                                                     decided.request)]
  /\ UNCHANGED <<sessVars, queueVars, gen, merged, connVars, serverVars, debVars, streamVars>>

NextR == ShouldRespondDelta

SpecR == InitR /\ [][NextR]_vars

\* the call was for an accepted request on a watched type
AcceptedCall ==
  /\ decided # <<>> /\ decided.done
  /\ decided.request.TypeUrl \in DOMAIN decided.W
  /\ decided.request.ErrorDetail = NoError
  /\ decided.request.ResponseNonce
       \in {NoNonce, decided.W[decided.request.TypeUrl].NonceSent}

\* the request of the call inserted a new name or unsubscribed a tracked one
NamesChanged ==
  LET old == decided.W[decided.request.TypeUrl].ResourceNames
      req == decided.request
  IN \/ (req.ResourceNamesSubscribe \cup req.InitialResourceVersions) \ old # {}
     \/ req.ResourceNamesUnsubscribe \cap old # {}

\* the diagnostic invariant fails for the call: an empty nonce and no name changed, or
\* a nonce and a name changed
Anomaly ==
  /\ AcceptedCall
  /\ (decided.request.ResponseNonce = NoNonce) <=> ~NamesChanged

\* C35: shouldRespondDelta logs a mismatch exactly for an accepted request with an
\* empty nonce that changes no tracked name or with a nonce that changes one; with
\* strict assertions off it then returns, answering whether a name changed or
\* AlwaysRespond was set; with strict assertions on it panics.
C35_Mismatch ==
  (decided # <<>> /\ decided.done) =>
    /\ decided.result.logged <=> Anomaly
    /\ Anomaly =>
         IF decided.assertions THEN decided.result.panic
         ELSE /\ ~decided.result.panic
              /\ decided.result.respond <=>
                   (NamesChanged \/ decided.W[decided.request.TypeUrl].AlwaysRespond)

\* with strict assertions off, an ack of the last nonce that also unsubscribes a
\* tracked name was logged and is answered
C35_Witness ==
  /\ Anomaly
  /\ ~decided.assertions
  /\ decided.request.ResponseNonce # NoNonce
  /\ decided.request.ResourceNamesUnsubscribe
       \cap decided.W[decided.request.TypeUrl].ResourceNames # {}
  /\ decided.result.logged
  /\ decided.result.respond

\* C40: every type watched before a handler ran is watched after it with the same
\* wildcard flag, whatever the handler was (a request, subscribing or unsubscribing
\* "*" or not, or a push); and a push leaves the watched types the same and changes
\* no field of a WatchedResource other than NonceSent.
C40_WildcardFixed ==
  /\ \A t \in DOMAIN prev :
       /\ t \in DOMAIN WatchedResources
       /\ WatchedResources[t].Wildcard = prev[t].Wildcard
  /\ ev.kind = "push" =>
       /\ DOMAIN WatchedResources = DOMAIN prev
       /\ \A t \in DOMAIN prev :
            WatchedResources[t] = [prev[t] EXCEPT !.NonceSent = WatchedResources[t].NonceSent]

\* a session that is not wildcard for its type subscribed to "*" in a later, accepted
\* request, which was answered
C40_Witness ==
  /\ Accepted
  /\ ~prev[ev.req.TypeUrl].Wildcard
  /\ ev.req.ResourceNamesSubscribe = {Star}
  /\ out # <<>>
  /\ WatchedResources[ev.req.TypeUrl].NonceSent # prev[ev.req.TypeUrl].NonceSent

\* the dequeued pushes waiting for their hand-over, and those a control loop handles
WaitingIds == {e.id : e \in handoff}
HandlingIds == {e.id : e \in handling}

\* Done of push i is called in this step
DoneCalled(i) == i \in DOMAIN doneCalls /\ doneCalls'[i] > doneCalls[i]

\* Done of push i is called by the control loop that handled it, or by the
\* dispatcher's goroutine while the push waited for a session whose stream is closed
DoneByLoopOrDispatcher ==
  \A i \in DOMAIN doneCalls :
    DoneCalled(i) =>
      \/ i \in HandlingIds /\ i \notin HandlingIds'
      \/ /\ i \in WaitingIds /\ i \notin WaitingIds' \cup HandlingIds'
         /\ \E e \in handoff : e.id = i /\ e.con \in closedStreams

\* C36: Done of a dequeued push is never called twice; it has not been called while
\* the push waits for its hand-over or is being handled, and has been called once when
\* neither is the case; each call is made by the control loop that handled the push or
\* by the dispatcher for a push not handed over to a closed stream; and each call
\* gives back one slot of the semaphore.
C36_DoneOnce ==
  /\ [](\A i \in DOMAIN doneCalls :
          /\ doneCalls[i] <= 1
          /\ doneCalls[i] = 0 <=> i \in WaitingIds \cup HandlingIds)
  /\ [](WaitingIds \cap HandlingIds = {})
  /\ [](semaphore >= Cardinality(WaitingIds \cup HandlingIds))
  /\ [][DoneByLoopOrDispatcher]_vars
  /\ [][\A i \in DOMAIN doneCalls : DoneCalled(i) => semaphore' = semaphore - 1]_vars

\* of two dequeued pushes, both done, one was handled by its session's loop and the
\* other never handed over
C36_Witness ==
  /\ Len(doneCalls) = 2
  /\ doneCalls[1] = 1 /\ doneCalls[2] = 1
  /\ \E c1, c2 \in Conns :
       /\ c1 # c2
       /\ delivered[c1].count = 1
       /\ delivered[c2].count = 0

\* receiveDelta is returning and the session was never initialized
EndsUninitialized == receiver = "deferred" /\ initialized = "open"

\* the three channels receiveDelta closes when it returns are closed
AllClosed == deltaReqChan.closed /\ errorCh.closed /\ initialized # "open"

\* a channel is closed in this step
ClosedNow ==
  \/ deltaReqChan'.closed # deltaReqChan.closed
  \/ errorCh'.closed # errorCh.closed
  \/ initialized # initialized' /\ initialized' = "closed"

\* channels are closed by the deferred function of receiveDelta only, which runs once,
\* and InitializedCh stays as it is once it is closed one way or the other
ClosedOnce ==
  /\ ClosedNow => (receiver = "deferred" /\ receiver' = "done" /\ AllClosed')
  /\ receiver = "done" => receiver' = "done"
  /\ initialized # "open" => initialized' = initialized

\* StreamDeltas returns, never initialized: its result is the error on ErrorCh, nil if none
ReturnsRecorded ==
  (loop # "returned" /\ loop' = "returned" /\ initialized = "closed")
    => trace'.result = errorCh.err

\* C39: when receiveDelta returns before the session is initialized, InitializedCh,
\* deltaReqChan and ErrorCh get closed, each once and by receiveDelta's deferred
\* function alone, and StreamDeltas returns: the error receiveDelta put on ErrorCh
\* (InvalidArgument for a first request without node), nil if it put none.
C39_Unblocked ==
  /\ EndsUninitialized ~> (loop = "returned" /\ AllClosed /\ initialized = "closed")
  /\ [](receiver = "done" => AllClosed)
  /\ [][ClosedOnce]_vars
  /\ [][ReturnsRecorded]_vars
  /\ []((loop = "returned" /\ initialized = "closed" /\ trace.noNode)
          => trace.result = InvalidArgument)

\* StreamDeltas returned InvalidArgument for a stream that was never initialized and
\* whose first request, after a health probe, named no node
C39_Witness ==
  /\ loop = "returned"
  /\ initialized = "closed"
  /\ trace.probes
  /\ trace.result = InvalidArgument
  /\ AllClosed

(***************************************************************************)
(* SpecC: connection identifiers.  Some streams are opened, by proxies of  *)
(* the same node or not; each is identified and registered by              *)
(* initConnection, watches types, and is removed by closeConnection.       *)
(* Strings are sequences of characters.                                    *)
(***************************************************************************)
\* the streams opened (calls of StreamDeltas)
MaxStreams == 3
Streams == 1..MaxStreams

\* the node ids of the proxies: "a", and "a-1", which reads like a connection id
NodeIds == {<<"a">>, <<"a", "-", "1">>}

\* strconv.FormatInt(n, 10) for n >= 0
RECURSIVE FormatInt(_)
FormatInt(n) ==
  LET digit == <<"0", "1", "2", "3", "4", "5", "6", "7", "8", "9">>[(n % 10) + 1]
  IN IF n < 10 THEN <<digit>> ELSE FormatInt(n \div 10) \o <<digit>>

\* (mutant) connectionID without the number drawn
connectionIDOfNode(node, id) == node \o <<"-">> \o FormatInt(0)

\* connectionID(node), id being the value the counter was advanced to
connectionID(node, id) == node \o <<"-">> \o FormatInt(id)

\* con.ID() before SetID
NoID == <<>>

\* newDeltaConnection: no id, no node, no proxy
NewConnection == [at |-> "new", ID |-> NoID, node |-> <<>>, W |-> "nil"]

InitC == SessionIdle /\ QueueIdle /\ GenIdle /\ DebounceIdle /\ DecideIdle /\ MergeIdle /\ ServerIdle
         /\ StreamIdle
         /\ connectionNumber = 0
         /\ connections = [s \in Streams |-> NewConnection]
         /\ clientsByID = <<>>

\* what SpecC leaves alone
notConn == <<sessVars, queueVars, callVars, serverVars, debVars, streamVars>>

\* initConnection up to con.proxy = proxy: the proxy is made for the node of the first
\* request and the connection gets its id from the counter
SetID(s, node) ==
  /\ connections[s].at = "new"
  /\ connectionNumber' = connectionNumber + 1
  /\ connections' = [connections EXCEPT
                       ![s] = [at |-> "SetID", node |-> node, W |-> "nil",
                               ID |-> connectionID(node, connectionNumber + 1)]]
  /\ UNCHANGED <<notConn, clientsByID>>

\* the rest of initConnection: addCon under the mutex, then the empty map of
\* WatchedResources
AddCon(s) ==
  /\ connections[s].at = "SetID"
  /\ clientsByID' = MapSet(clientsByID, connections[s].ID, s)
  /\ connections' = [connections EXCEPT ![s].at = "registered", ![s].W = <<>>]
  /\ UNCHANGED <<notConn, connectionNumber>>

\* the session handles the first request for a type: a wildcard subscription
Watch(s, t) ==
  /\ connections[s].at = "registered"
  /\ t \notin DOMAIN connections[s].W
  /\ connections' = [connections EXCEPT
                       ![s].W = shouldRespondDelta(@, WildcardRequest(t)).W]
  /\ UNCHANGED <<notConn, connectionNumber, clientsByID>>

\* closeConnection, deferred by receiveDelta: removeCon(con.ID()) under the mutex
RemoveConnection(s) ==
  /\ connections[s].at = "registered"
  /\ clientsByID' = IF connections[s].ID \in DOMAIN clientsByID
                    THEN MapDelete(clientsByID, connections[s].ID) ELSE clientsByID
  /\ connections' = [connections EXCEPT ![s].at = "closed"]
  /\ UNCHANGED <<notConn, connectionNumber>>

NextC ==
  \/ \E s \in Streams, node \in NodeIds : SetID(s, node)
  \/ \E s \in Streams : AddCon(s)
  \/ \E s \in Streams, t \in {"T", AddressType} : Watch(s, t)
  \/ \E s \in Streams : RemoveConnection(s)

SpecC == InitC /\ [][NextC]_vars

\* the streams that have a connection id
Identified == {s \in Streams : connections[s].ID # NoID}

\* a stream is registered in this step
RegisteredNow(s) == connections[s].at # "registered" /\ connections'[s].at = "registered"

\* a session registered in this step starts with an empty map of WatchedResources
StartsEmpty == \A s \in Streams : RegisteredNow(s) => connections'[s].W = <<>>

\* C32: two sessions, of the same node or not, never have the same connection id; a
\* registered session is in the table under its id, whatever other sessions were
\* registered or removed meanwhile, and a removed one is not; and a session starts
\* with an empty map of WatchedResources, whatever earlier sessions of its node watch.
C32_DistinctIds ==
  /\ [](\A s1, s2 \in Identified : connections[s1].ID = connections[s2].ID => s1 = s2)
  /\ [](\A s \in Streams :
          /\ connections[s].at = "registered" =>
               /\ connections[s].ID \in DOMAIN clientsByID
               /\ clientsByID[connections[s].ID] = s
          /\ connections[s].at = "closed" => connections[s].ID \notin DOMAIN clientsByID)
  /\ [][StartsEmpty]_vars

\* a proxy of node "a" reconnected: its first session watched a type and was removed,
\* its second is registered and watches nothing, and a session of node "a-1" is
\* registered as well
C32_Witness ==
  \E s1, s2, s3 \in Streams :
    /\ connections[s1].node = <<"a">> /\ connections[s1].at = "closed"
    /\ connections[s1].W # <<>>
    /\ connections[s2].node = <<"a">> /\ connections[s2].at = "registered"
    /\ connections[s2].W = <<>>
    /\ connections[s3].node = <<"a", "-", "1">> /\ connections[s3].at = "registered"

(***************************************************************************)
(* SpecQ2: the dispatcher of SpecQ with room for one more push in the      *)
(* semaphore, and two sessions: the link of BlockedCon may be saturated,   *)
(* that of LiveCon is not.                                                 *)
(***************************************************************************)
BlockedCon == "c1"
LiveCon == "c2"

InitQ2 ==
  /\ SessionIdle /\ QueueIdle /\ GenIdle /\ DebounceIdle /\ DecideIdle /\ ConnIdle
  /\ MergeIdle /\ StreamIdle
  /\ stopCh = FALSE /\ shuttingDown = FALSE
  /\ concurrentPushLimit = PushThrottle + 1

SpecQ2 == InitQ2 /\ [][NextQ]_vars

\* the loop of the live session takes a push offered to it
LiveReceives == \E pushEv \in handoff : pushEv.con = LiveCon /\ ReceivePush(pushEv)

\* the handler of the live session returns: its sends do not block for ever
LiveFinishes ==
  \E pushEv \in handling, ok \in BOOLEAN : pushEv.con = LiveCon /\ FinishPush(pushEv, ok)

\* SpecQ2 with the scheduling the code relies on: sendPushes and its goroutines go
\* on, and so does the loop of the live session.  Nothing is assumed of the blocked
\* session: its loop may never take a push, and a push it took may never be done.
SpecQ2Live ==
  /\ SpecQ2
  /\ WF_vars(AcquireSlot)
  /\ WF_vars(DequeuePush)
  /\ WF_vars(\E pushEv \in handoff : ClosedHandOver(pushEv))
  /\ WF_vars(LiveReceives)
  /\ WF_vars(LiveFinishes)

\* the Push calls whose batches wait for a connection: pending, merged behind the push
\* in progress, or dequeued and offered to its loop
Awaited(con) ==
  (IF con \in DOMAIN pending THEN pending[con].Flushes ELSE {})
    \cup (IF con \in DOMAIN processing /\ processing[con] # NilRequest
          THEN processing[con].Flushes ELSE {})
    \cup UNION {e.PushRequest.Flushes : e \in {x \in handoff : x.con = con}}

\* the loop of a connection took the batch of Push call v and its handler has returned
HandledBy(con, v) ==
  /\ delivered[con].last >= v
  /\ \A e \in handling : e.con = con => v \notin e.PushRequest.Flushes

\* C34: with room for two pushes in the semaphore, a session holds at most one slot,
\* and every batch enqueued for the live session is handled by it in the end, unless
\* its stream is closed first, whatever the other session does or fails to do.
C34_NotStarved ==
  /\ [](\A con \in Conns : Cardinality(InFlight(con)) <= 1)
  /\ \A v \in 1..MaxPushCalls :
       (v \in Awaited(LiveCon)) ~> (HandledBy(LiveCon, v) \/ LiveCon \in closedStreams)

\* the blocked session holds a slot, for a push its loop took or one it does not take,
\* with more merged behind it, while the live session has handled two batches
C34_Witness ==
  /\ InFlight(BlockedCon) # {}
  /\ BlockedCon \notin closedStreams
  /\ BlockedCon \in DOMAIN processing /\ processing[BlockedCon] # NilRequest
  /\ delivered[LiveCon].count = 2
  /\ handling \cup handoff = {e \in handling \cup handoff : e.con = BlockedCon}
  /\ LiveCon \notin closedStreams

(***************************************************************************)
(* SpecX: Start and the stop channel.  The debouncer of SpecD passes its   *)
(* batches to Push, the dispatcher of SpecQ serves one session, and the    *)
(* stop channel is closed at some point.  The dispatcher is followed       *)
(* through the blocking points of its loop: the test of stopCh at the top  *)
(* ("select"), the send on the semaphore ("semaphore"), Dequeue            *)
(* ("dequeue").                                                            *)
(***************************************************************************)
\* the events the collections report in SpecX
MaxStopEvents == 1

InitX == SessionIdle /\ QueueIdle /\ GenIdle /\ DebounceIdle /\ DecideIdle /\ ConnIdle
         /\ ServerIdle /\ MergeIdle /\ StreamIdle

\* what the stop channel, the debouncer and the dispatcher leave alone
notServer == <<callVars, connVars, streamVars>>

\* the stop channel given to Start is closed
CloseStopCh ==
  /\ ~stopCh
  /\ stopCh' = TRUE
  /\ UNCHANGED <<sessVars, queueVars, debVars, notServer, concurrentPushLimit, shuttingDown>>

\* Shutdown: the push queue is shut down
Shutdown ==
  /\ ~shuttingDown
  /\ shuttingDown' = TRUE
  /\ UNCHANGED <<sessVars, queueVars, debVars, notServer, stopCh, concurrentPushLimit>>

\* a collection reports a change to the debouncer
ReportedEvent == burst.received < MaxStopEvents /\ ChannelEvent

\* debounce, at its select, takes the case of the closed stop channel
DebounceStopped == stopCh /\ StopCh

\* the push goroutine of debounce: pushFn is Push, which stamps the next version on
\* the batch and enqueues it for AllClients; then freeCh is signalled
PushCalled(i) ==
  /\ ~pushFn[i].returned
  /\ debounce.freeCh = 0
  /\ pushFn' = [pushFn EXCEPT ![i].returned = TRUE]
  /\ debounce' = [debounce EXCEPT !.freeCh = 1,
                                  !.updateSent = @ + pushFn[i].debouncedEvents]
  /\ pushVersion' = pushVersion + 1
  /\ \E cs \in Orders(adsClients) :
       SetQueue(EnqueueAll(PushQueue, cs,
                           ConfigPush(pushFn[i].req.ConfigsUpdated, pushVersion + 1)))
  /\ UNCHANGED <<WatchedResources, status, uuid, held, sent, ev, prev, out, notServer,
                 serverVars, burst, adsClients, closedStreams, returned, semaphore,
                 dispatcher, handoff, handling, doneCalls, delivered>>

\* sendPushes, at the top of its loop, finds the stop channel closed and returns
SendPushesStopped ==
  /\ dispatcher = "select"
  /\ stopCh
  /\ dispatcher' = "stopped"
  /\ UNCHANGED <<sessVars, debVars, notServer, serverVars, adsClients, closedStreams,
                 returned, pending, queue, processing, semaphore, handoff, handling,
                 doneCalls, delivered>>

\* sendPushes takes the default case and blocks in its send on the full semaphore
WaitForSlot ==
  /\ dispatcher = "select"
  /\ ~stopCh
  /\ semaphore >= concurrentPushLimit
  /\ dispatcher' = "semaphore"
  /\ UNCHANGED <<sessVars, debVars, notServer, serverVars, adsClients, closedStreams,
                 returned, pending, queue, processing, semaphore, handoff, handling,
                 doneCalls, delivered>>

\* a slot was given back: the blocked send on the semaphore goes through
SlotFreed ==
  /\ dispatcher = "semaphore"
  /\ semaphore < concurrentPushLimit
  /\ semaphore' = semaphore + 1
  /\ dispatcher' = "dequeue"
  /\ UNCHANGED <<sessVars, debVars, notServer, serverVars, adsClients, closedStreams,
                 returned, pending, queue, processing, handoff, handling, doneCalls,
                 delivered>>

\* Dequeue returns shuttingdown, the queue being empty and shut down: sendPushes returns
DequeueShutDown ==
  /\ dispatcher = "dequeue"
  /\ queue = <<>>
  /\ shuttingDown
  /\ dispatcher' = "stopped"
  /\ UNCHANGED <<sessVars, debVars, notServer, serverVars, adsClients, closedStreams,
                 returned, pending, queue, processing, semaphore, handoff, handling,
                 doneCalls, delivered>>

NextX ==
  \/ CloseStopCh
  \/ Shutdown
  \/ ReportedEvent
  \/ TimeChan
  \/ FreeCh
  \/ Tick
  \/ \E i \in DOMAIN pushFn : PushCalled(i)
  \/ DebounceStopped
  \/ InitConnection(StreamCon)
  \/ CloseStream(StreamCon)
  \/ AcquireSlot
  \/ WaitForSlot
  \/ SlotFreed
  \/ DequeuePush
  \/ DequeueShutDown
  \/ SendPushesStopped
  \/ \E pushEv \in handoff : ReceivePush(pushEv)
  \/ \E pushEv \in handoff : ClosedHandOver(pushEv)
  \/ \E pushEv \in handling, ok \in BOOLEAN : FinishPush(pushEv, ok)

SpecX == InitX /\ [][NextX]_vars

\* SpecX with every task scheduled and every handler returning: the clock advances,
\* debounce and sendPushes take what is ready, the session takes its pushes and
\* finishes them.  When the stop channel is closed and whether Shutdown is called
\* are left open.
SpecXLive ==
  /\ SpecX
  /\ WF_vars(Tick)
  /\ WF_vars(TimeChan)
  /\ WF_vars(FreeCh)
  /\ WF_vars(\E i \in DOMAIN pushFn : PushCalled(i))
  /\ WF_vars(DebounceStopped)
  /\ WF_vars(AcquireSlot)
  /\ WF_vars(WaitForSlot)
  /\ WF_vars(SlotFreed)
  /\ WF_vars(DequeuePush)
  /\ WF_vars(DequeueShutDown)
  /\ WF_vars(SendPushesStopped)
  /\ WF_vars(\E pushEv \in handoff : ReceivePush(pushEv))
  /\ WF_vars(\E pushEv \in handoff : ClosedHandOver(pushEv))
  /\ WF_vars(\E pushEv \in handling, ok \in BOOLEAN : FinishPush(pushEv, ok))

\* C31 as stated: once the stop channel is closed, debounce and sendPushes both
\* return in the end, wherever they were blocked.
C31_AsStated == stopCh ~> (debounce.stopped /\ dispatcher = "stopped")

=============================================================================
